---- MODULE Spec2Model ----
(***************************************************************************)
(* Verification model of LibXPUInfo: the device registry assembled by the *)
(* XPUInfo constructor from its probes (DXGI, DX11 perf counter, DXCore,   *)
(* IGCL, OpenCL, Level Zero, SetupAPI, NVML, WMI), the per-field merge     *)
(* helpers the probes use, and the TelemetryTracker timer/record machine.  *)
(*                                                                         *)
(* Sizes are kept in MB (the code uses bytes) so that they stay inside     *)
(* a 32-bit integer; every other value is the code's.                      *)
(***************************************************************************)
EXTENDS Integers, Sequences, FiniteSets, TLC

(***************************************************************************)
(* Bounds of the model.                                                    *)
(***************************************************************************)
\* adapters a probe's enumeration may report in one construction
MaxReports == 2
\* records a TelemetryTracker appends in one run
MaxRecords == 2
\* timer callbacks the threadpool holds queued at one time
MaxQueued == 1

(***************************************************************************)
(* Program constants.                                                      *)
(***************************************************************************)
\* XPUInfo::finalInitDXGI thresholds, in MB
k256MB == 256
k2GB == 2048

kVendorId_Intel == 32902
kVendorId_nVidia == 4318

\* enum UMAType
UMA_UNKNOWN == 0
UMA_INTEGRATED == 1
NONUMA_DISCRETE == 2

\* enum DeviceType
DEVICE_TYPE_UNKNOWN == 0
DEVICE_TYPE_GPU == 2
DEVICE_TYPE_NPU == 4

\* the "unset" value of the signed property fields, T(-1)
NotSet == 0 - 1

\* enum APIType, as a set of names instead of a bitmask
API_TYPE_ALL ==
    {"DXGI", "DX11_INTEL_PERF_COUNTER", "IGCL", "OPENCL", "LEVELZERO",
     "SETUPAPI", "DXCORE", "NVML", "WMI"}

VARIABLES
    pc,            \* position of the caller's thread in XPUInfo::XPUInfo
    initMask,      \* m_InitAPIs
    m_Devices,     \* std::map<UI64, DevicePtr>, as a set of [key, dev] entries
    m_UsedAPIs,    \* XPUInfo::m_UsedAPIs
    iter,          \* loop index of the running probe's adapter enumeration
    wmiThread,     \* state of the std::thread held by wmiThreadPtr
    wmiLocal,      \* value of m_UsedAPIs loaded by the worker thread
    handlerCalls,  \* number of calls made to the error handler
    log,           \* messages written to an enabled DebugStream
    last,          \* the probe application made by the latest step
    \* two probes merged into one registry in both orders
    order,         \* the two probe applications, <<first, second>>
    regAB,         \* m_Devices after first then second
    regBA,         \* m_Devices after second then first
    phase,         \* number of orders merged so far
    \* TelemetryTracker
    tracker,       \* lifetime of the TelemetryTracker object
    deviceAPIs,    \* m_Device->getCurrentAPIs()
    m_msPeriod,    \* TelemetryTracker::m_msPeriod
    m_timer,       \* TelemetryTracker::m_timer
    m_pdhQuery,    \* TelemetryTracker::m_pdhQuery is an open query
    m_freqHandlesL0, \* domains of TelemetryTracker::m_freqHandlesL0
    timerSet,      \* the threadpool timer is set to fire periodically
    queued,        \* callbacks the threadpool has queued and not yet run
    cb,            \* position of the threadpool thread in RecordNow
    m_records,     \* TelemetryTracker::m_records
    m_ResultMask,  \* TelemetryTracker::m_ResultMask
    app,           \* position of the application thread
    yielded,       \* whether a source wrote a value in the latest RecordNow
    ticks,         \* runs of RecordNow that have returned, counted up to 2
    required,      \* the XPUINFO_REQUIRE that failed in the constructor
    usage,         \* what getMaxMemUsage and getInitialMemUsage returned
    dtor,          \* position of the application thread in the destructor
    api,           \* the application's calls so far
    \* a client of DeviceDriverVersion
    version,       \* the DeviceDriverVersion the client calls
    range,         \* the VersionRange the client holds, <<first, second>>
    verCall,       \* the client's latest call and what it returned
    \* a client of DeviceProperties::getDeviceGenerationName
    genProps,      \* DeviceGenerationAPI and DeviceGenerationID of the Device
    genName,       \* what the latest lookup returned
    \* a snapshot written from the registry and read back
    jsonPc,        \* position of the snapshot's writer and reader
    doc,           \* the rapidjson::Document
    pXID,          \* the XPUInfo built by XPUInfo::deserialize
    xiEqual,       \* what JSON::compareXI returned
    \* a client of DeviceDriverVersion::FromString and GetAsString
    text,          \* the std::string passed to FromString
    strPc,         \* position of the client
    pos,           \* countNumChar's pos
    numMatch,      \* countNumChar's numMatch
    parsed,        \* the DeviceDriverVersion FromString returned
    asString       \* the String GetAsString returned

ctorVars == <<pc, initMask, m_Devices, m_UsedAPIs, iter, wmiThread, wmiLocal,
              handlerCalls, log, last>>

orderVars == <<order, regAB, regBA, phase>>

telVars == <<tracker, deviceAPIs, m_msPeriod, m_timer, m_pdhQuery,
             m_freqHandlesL0, timerSet, queued, cb, m_records, m_ResultMask,
             app, yielded, ticks, required, usage, dtor, api>>

verVars == <<version, range, verCall>>

genVars == <<genProps, genName>>

jsonVars == <<jsonPc, doc, pXID, xiEqual>>

strVars == <<text, strPc, pos, numMatch, parsed, asString>>

fnVars == <<verVars, genVars, jsonVars, strVars>>

vars == <<ctorVars, orderVars, telVars, fnVars>>

\* the parts of the state that belong to no running operation
orderIdle ==
    /\ order = <<>>
    /\ regAB = {}
    /\ regBA = {}
    /\ phase = 0

telIdle ==
    /\ tracker = "none"
    /\ deviceAPIs = {}
    /\ m_msPeriod = 0
    /\ m_timer = "null"
    /\ m_pdhQuery = FALSE
    /\ m_freqHandlesL0 = {}
    /\ timerSet = FALSE
    /\ queued = 0
    /\ cb = "idle"
    /\ m_records = <<>>
    /\ m_ResultMask = {}
    /\ app = "idle"
    /\ yielded = "none"
    /\ ticks = 0
    /\ required = "none"
    /\ usage = [peak |-> NotSet, peakAt |-> 0, initial |-> NotSet,
                initialAt |-> 0]
    /\ dtor = "none"
    /\ api = [last |-> "none", stopped |-> FALSE, everStopped |-> FALSE]

verIdle ==
    /\ version = [mRawVersion |-> <<0, 0, 0, 0>>, mValid |-> FALSE]
    /\ range = <<version, version>>
    /\ verCall = [op |-> "none", build |-> 0, release |-> 0, ret |-> "none"]

genIdle ==
    /\ genProps = [DeviceGenerationAPI |-> "UNKNOWN", DeviceGenerationID |-> 0 - 1]
    /\ genName = "none"

jsonIdle ==
    /\ jsonPc = "idle"
    /\ doc = [has |-> {}, Version |-> "", UsedAPIsUI32 |-> 0, Devices |-> <<>>]
    /\ pXID = [m_UsedAPIs |-> {}, m_Devices |-> {}]
    /\ xiEqual = "none"

strIdle ==
    /\ text = <<>>
    /\ strPc = "idle"
    /\ pos = 0
    /\ numMatch = 0
    /\ parsed = [mRawVersion |-> <<0, 0, 0, 0>>, mValid |-> FALSE]
    /\ asString = <<>>

fnIdle == verIdle /\ genIdle /\ jsonIdle /\ strIdle

(***************************************************************************)
(* LibXPUInfo_Util.h: the merge helpers.                                   *)
(***************************************************************************)
updateIfNotZero(dst, src) == IF src # 0 THEN src ELSE dst

updateIfDstNotSet(dst, src) == IF dst = NotSet THEN src ELSE dst

\* an updateIfDstVal that stores unless dst holds isVal
updateIfDstVal_Inverted(dst, isVal, src) ==
    IF dst # isVal THEN src ELSE dst

updateIfDstVal(dst, isVal, src) == IF dst = isVal THEN src ELSE dst

\* PCIAddressType: <<domain, bus, device, function>>, each UI32 with
\* UI32(-1) written NotSet
PCIAddressDefault == <<NotSet, NotSet, NotSet, NotSet>>

isValidPCIAddr(addr) ==
    /\ \E i \in 1..4 : addr[i] > 0
    /\ \A i \in 1..4 : addr[i] # NotSet

(***************************************************************************)
(* Device::Device and DeviceProperties' member initialisers.               *)
(***************************************************************************)
DeviceCtor(inIndex, desc, inType, inAPI) ==
    [ m_adapterIndex          |-> inIndex,
      m_type                  |-> inType,
      validAPIs               |-> {inAPI},
      AdapterLuid             |-> desc.luid,
      VendorId                |-> desc.VendorId,
      Description             |-> desc.Description,
      DedicatedVideoMemory    |-> desc.DedicatedVideoMemory,
      SharedSystemMemory      |-> desc.SharedSystemMemory,
      driverVersionValid      |-> desc.driverVersionValid,
      UMA                     |-> UMA_UNKNOWN,
      NumComputeUnits         |-> NotSet,
      FreqMaxMHz              |-> NotSet,
      PCIDeviceGen            |-> NotSet,
      PCIDeviceWidth          |-> NotSet,
      PCIDeviceMaxBandwidth   |-> NotSet,
      PCICurrentGen           |-> NotSet,
      PCICurrentWidth         |-> NotSet,
      PCICurrentMaxBandwidth  |-> NotSet,
      PCIAddress              |-> PCIAddressDefault,
      IsHighPerformance       |-> NotSet,
      IsDetachable            |-> NotSet,
      pDriverInfo             |-> 0,
      m_OpenCLAdapterName     |-> <<>>,
      cudaComputeCapability   |-> NotSet ]

getLUID(dev) == dev.AdapterLuid

(***************************************************************************)
(* std::map<UI64, DevicePtr>                                               *)
(***************************************************************************)
MapKeys(m) == {e.key : e \in m}

MapFind(m, k) == {e \in m : e.key = k}

MapAt(m, k) == (CHOOSE e \in m : e.key = k).dev

\* an insert that assigns, as m[k] = d would
MapInsert_Assign(m, k, d) ==
    {e \in m : e.key # k} \cup {[key |-> k, dev |-> d]}

\* std::map::insert: no effect when the key is already present
MapInsert(m, k, d) ==
    IF k \in MapKeys(m) THEN m ELSE m \cup {[key |-> k, dev |-> d]}

\* the mapped Device of key k modified in place through its shared pointer
MapUpdate(m, k, d) ==
    {IF e.key = k THEN [key |-> k, dev |-> d] ELSE e : e \in m}

\* the entries in std::map iteration order (ascending key)
RECURSIVE MapOrder(_)
MapOrder(m) ==
    IF m = {} THEN <<>>
    ELSE LET k == CHOOSE x \in MapKeys(m) : \A y \in MapKeys(m) : x <= y
         IN <<k>> \o MapOrder({e \in m : e.key # k})

(***************************************************************************)
(* The per-device part of each probe: Device::init*Device.  r is what the  *)
(* probe's backend reports for the adapter.                                *)
(***************************************************************************)
\* LibXPUInfo_IntelDeviceInfoDX11.cpp
initDXIntelPerfCounter(d, r) ==
    IF r.getStatus = "GGF_SUCCESS" /\ r.Version >= 2 THEN
        [d EXCEPT
            !.FreqMaxMHz = updateIfDstNotSet(@, r.GPUMaxFreq),
            !.NumComputeUnits = updateIfDstNotSet(@, r.EUCount),
            !.validAPIs = @ \cup {"DX11_INTEL_PERF_COUNTER"}]
    ELSE IF r.getStatus = "GGF_SUCCESS" /\ r.Version = 1 THEN
        [d EXCEPT
            !.FreqMaxMHz = updateIfDstNotSet(@, r.GPUMaxFreq),
            !.validAPIs = @ \cup {"DX11_INTEL_PERF_COUNTER"}]
    ELSE d

\* LibXPUInfo_DXCore.cpp.  handleAdapter captures luidHighPerf and
\* luidMinPower by value when the lambda is created, before handleSort
\* assigns them, so both are 0 and bHighPerf, bMinPower are false.
initDXCoreDevice(d, r) ==
    [d EXCEPT
        !.validAPIs = @ \cup {"DXCORE"},
        !.UMA = IF r.isIntegratedValid
                THEN updateIfDstVal(@, UMA_UNKNOWN,
                        IF r.isIntegrated THEN UMA_INTEGRATED ELSE NONUMA_DISCRETE)
                ELSE @,
        !.IsHighPerformance = updateIfDstNotSet(@, 0),
        !.IsDetachable = updateIfDstNotSet(@, IF r.isDetachable THEN 1 ELSE 0)]

\* the derived current-link bandwidth, LibXPUInfo_IGCL.cpp lines 972-977
PCICurrentBandwidth(d) ==
    LET bwDev == d.PCIDeviceGen * d.PCIDeviceWidth
        cur == d.PCICurrentGen * d.PCICurrentWidth
    IN IF bwDev > 0 /\ cur > 0 /\ d.PCIDeviceMaxBandwidth > 0
       THEN (cur * d.PCIDeviceMaxBandwidth) \div bwDev
       ELSE d.PCICurrentMaxBandwidth

\* an initIGCLDevice that derives the bandwidth before it stores the
\* current link state
initIGCLDevice_StaleLinkState(d, r) ==
    LET d1 == [d EXCEPT
                !.m_type = updateIfDstVal(@, DEVICE_TYPE_UNKNOWN, DEVICE_TYPE_GPU),
                !.UMA = updateIfDstVal(@, UMA_UNKNOWN,
                          IF r.integrated THEN UMA_INTEGRATED ELSE NONUMA_DISCRETE),
                !.validAPIs = @ \cup {"IGCL"}]
        d2 == [d1 EXCEPT
                !.PCIDeviceGen = updateIfNotZero(@, r.maxSpeed[1]),
                !.PCIDeviceWidth = updateIfNotZero(@, r.maxSpeed[2]),
                !.PCIDeviceMaxBandwidth = updateIfNotZero(@, r.maxSpeed[3])]
        gen == r.speed[1]
        width == r.speed[2]
        d3 == [d2 EXCEPT
                !.PCICurrentMaxBandwidth = PCICurrentBandwidth(d2),
                !.PCICurrentGen =
                    IF gen # NotSet /\ gen > 0 /\ gen <= 8
                    THEN updateIfNotZero(@, gen) ELSE @,
                !.PCICurrentWidth =
                    IF width # NotSet /\ width > 0 /\ width <= 64
                    THEN updateIfNotZero(@, width) ELSE @]
        d4 == IF r.pciStateOK THEN d3 ELSE d2
        d5 == IF ~isValidPCIAddr(d4.PCIAddress) /\ isValidPCIAddr(r.address)
              THEN [d4 EXCEPT !.PCIAddress = r.address]
              ELSE d4
    IN IF r.pciPropsOK THEN d5 ELSE d1

\* LibXPUInfo_IGCL.cpp
initIGCLDevice(d, r) ==
    LET d1 == [d EXCEPT
                !.m_type = updateIfDstVal(@, DEVICE_TYPE_UNKNOWN, DEVICE_TYPE_GPU),
                !.UMA = updateIfDstVal(@, UMA_UNKNOWN,
                          IF r.integrated THEN UMA_INTEGRATED ELSE NONUMA_DISCRETE),
                !.validAPIs = @ \cup {"IGCL"}]
        d2 == [d1 EXCEPT
                !.PCIDeviceGen = updateIfNotZero(@, r.maxSpeed[1]),
                !.PCIDeviceWidth = updateIfNotZero(@, r.maxSpeed[2]),
                !.PCIDeviceMaxBandwidth = updateIfNotZero(@, r.maxSpeed[3])]
        gen == r.speed[1]
        width == r.speed[2]
        d3 == [d2 EXCEPT
                !.PCICurrentGen =
                    IF gen # NotSet /\ gen > 0 /\ gen <= 8
                    THEN updateIfNotZero(@, gen) ELSE @,
                !.PCICurrentWidth =
                    IF width # NotSet /\ width > 0 /\ width <= 64
                    THEN updateIfNotZero(@, width) ELSE @]
        d4 == IF r.pciStateOK
              THEN [d3 EXCEPT !.PCICurrentMaxBandwidth = PCICurrentBandwidth(d3)]
              ELSE d2
        d5 == IF ~isValidPCIAddr(d4.PCIAddress) /\ isValidPCIAddr(r.address)
              THEN [d4 EXCEPT !.PCIAddress = r.address]
              ELSE d4
    IN IF r.pciPropsOK THEN d5 ELSE d1

\* LibXPUInfo_OpenCL.cpp
initOpenCLDevice(d, r) ==
    [d EXCEPT
        !.m_OpenCLAdapterName = r.devName,
        !.NumComputeUnits =
            IF @ = NotSet /\ r.maxCUok THEN r.maxCU ELSE @,
        !.FreqMaxMHz =
            IF @ = NotSet /\ r.maxFreqok THEN r.maxFreq ELSE @,
        !.UMA =
            IF r.isUMAok
               /\ (\/ @ = UMA_UNKNOWN
                   \/ (r.isUMA /\ @ = NONUMA_DISCRETE)
                   \/ (~r.isUMA /\ @ = UMA_INTEGRATED))
            THEN (IF r.isUMA THEN UMA_INTEGRATED ELSE NONUMA_DISCRETE)
            ELSE @,
        !.validAPIs = @ \cup {"OPENCL"}]

\* an initL0Device that stores its compute-unit count unconditionally
initL0Device_Overwrite(d, r) ==
    LET d1 == [d EXCEPT
                !.validAPIs = @ \cup {"LEVELZERO"},
                !.NumComputeUnits = r.numEUs,
                !.FreqMaxMHz = updateIfDstNotSet(@, r.coreClockRate)]
    IN IF r.pciOK /\ ~isValidPCIAddr(d1.PCIAddress) /\ isValidPCIAddr(r.address)
       THEN [d1 EXCEPT !.PCIAddress = r.address]
       ELSE d1

\* LibXPUInfo_L0.cpp
initL0Device(d, r) ==
    LET d1 == [d EXCEPT
                !.validAPIs = @ \cup {"LEVELZERO"},
                !.NumComputeUnits = updateIfDstNotSet(@, r.numEUs),
                !.FreqMaxMHz = updateIfDstNotSet(@, r.coreClockRate)]
    IN IF r.pciOK /\ ~isValidPCIAddr(d1.PCIAddress) /\ isValidPCIAddr(r.address)
       THEN [d1 EXCEPT !.PCIAddress = r.address]
       ELSE d1

\* LibXPUInfo_NVML.cpp
initNVMLDevice(d, r) ==
    [d EXCEPT
        !.NumComputeUnits = IF r.coresOK THEN r.numGPUCores ELSE @,
        !.FreqMaxMHz =
            IF r.freqOK THEN updateIfDstNotSet(@, r.freqSM) ELSE @,
        !.PCICurrentGen =
            IF r.linkOK THEN updateIfDstNotSet(@, r.link[1]) ELSE @,
        !.PCICurrentWidth =
            IF r.linkOK THEN updateIfDstNotSet(@, r.link[2]) ELSE @,
        !.cudaComputeCapability = IF r.cccOK THEN r.ccc ELSE @,
        !.validAPIs = @ \cup {"NVML"}]

(***************************************************************************)
(* The registry part of each probe: what XPUInfo::init* does to m_Devices  *)
(* for one adapter the backend enumerates.                                 *)
(***************************************************************************)
\* XPUInfo::initDXGI, body of the EnumAdapters1 loop
DXGIDevices(m, mask, adapterIndex, r) ==
    LET newDevice == DeviceCtor(adapterIndex, r, DEVICE_TYPE_GPU, "DXGI")
        m1 == MapInsert(m, getLUID(newDevice), newDevice)
    IN IF ~r.driverVersionValid THEN m
       ELSE IF "DX11_INTEL_PERF_COUNTER" \in mask
               /\ newDevice.VendorId = kVendorId_Intel
       THEN MapUpdate(m1, r.luid,
                initDXIntelPerfCounter(MapAt(m1, r.luid), r.dx11))
       ELSE m1

\* XPUInfo::initDXCore, handleAdapter
DXCoreDevType(r) == IF r.isGraphics THEN DEVICE_TYPE_GPU ELSE DEVICE_TYPE_NPU

\* a handleAdapter that drops a report of another kind than the Device's
DXCoreDevices_RejectMismatch(m, r) ==
    LET newDevice == DeviceCtor(Cardinality(m), r, DXCoreDevType(r), "DXCORE")
    IN IF ~r.isHardware THEN m
       ELSE IF MapFind(m, getLUID(newDevice)) # {}
       THEN (IF MapAt(m, r.luid).m_type # DXCoreDevType(r) THEN m
             ELSE MapUpdate(m, r.luid, initDXCoreDevice(MapAt(m, r.luid), r)))
       ELSE MapInsert(m, getLUID(newDevice), initDXCoreDevice(newDevice, r))

\* a handleAdapter that replaces the registered Device by the one it built
DXCoreDevices_Replace(m, r) ==
    LET newDevice == DeviceCtor(Cardinality(m), r, DXCoreDevType(r), "DXCORE")
    IN IF ~r.isHardware THEN m
       ELSE MapInsert_Assign(m, getLUID(newDevice),
                             initDXCoreDevice(newDevice, r))

DXCoreDevices(m, r) ==
    LET newDevice == DeviceCtor(Cardinality(m), r, DXCoreDevType(r), "DXCORE")
    IN IF ~r.isHardware THEN m
       ELSE IF MapFind(m, getLUID(newDevice)) # {}
       THEN MapUpdate(m, r.luid, initDXCoreDevice(MapAt(m, r.luid), r))
       ELSE MapInsert(m, getLUID(newDevice), initDXCoreDevice(newDevice, r))

\* the DebugStream(true) output of handleAdapter
DXCoreLog(m, r) ==
    IF r.isHardware /\ MapFind(m, r.luid) # {}
       /\ MapAt(m, r.luid).m_type # DXCoreDevType(r)
    THEN {"ERROR: DeviceType mismatch!"}
    ELSE {}

\* XPUInfo::initIGCL, body of the adapter loop
IGCLDevices(m, r) ==
    IF r.pci_vendor_id = kVendorId_Intel /\ MapFind(m, r.luid) # {}
    THEN MapUpdate(m, r.luid, initIGCLDevice(MapAt(m, r.luid), r))
    ELSE m

\* adapter names are sequences of lower-case words; std::string::find
IsSubSeq(sub, str) ==
    \E i \in 0..(Len(str) - Len(sub)) :
        \A j \in 1..Len(sub) : str[i + j] = sub[j]

\* the first key in map order among the keys in pass, 0 when pass is empty
FirstMatch(m, pass) ==
    LET ks == MapOrder(m)
        hits == {i \in 1..Len(ks) : ks[i] \in pass}
    IN IF hits = {} THEN 0
       ELSE ks[CHOOSE i \in hits : \A j \in hits : i <= j]

\* XPUInfo::getDeviceInternal(const char* inNameSubString)
getDeviceInternalByName(m, inNameSubString) ==
    FirstMatch(m, {e.key : e \in {x \in m :
                              IsSubSeq(inNameSubString, x.dev.Description)}})

\* XPUInfo::initOpenCL, body of the clDevices loop: the Device it selects
OpenCLTarget(m, r) ==
    IF r.luidValid /\ MapFind(m, r.luid) # {} THEN r.luid
    ELSE getDeviceInternalByName(m, r.devName)

OpenCLDevices(m, r) ==
    LET k == OpenCLTarget(m, r)
    IN IF k # 0 THEN MapUpdate(m, k, initOpenCLDevice(MapAt(m, k), r)) ELSE m

\* XPUInfo::initL0, body of the device loop: the Device it selects
L0Target(m, r) ==
    LET byName == {x \in m :
                     \/ r.name = x.dev.Description
                     \/ (Len(x.dev.m_OpenCLAdapterName) > 0
                         /\ r.name = x.dev.m_OpenCLAdapterName)}
    IN IF r.luidExt /\ r.luid # 0
       THEN (IF MapFind(m, r.luid) # {} THEN r.luid ELSE 0)
       ELSE FirstMatch(m, {e.key : e \in byName})

L0Devices(m, r) ==
    LET k == L0Target(m, r)
    IN IF k # 0 THEN MapUpdate(m, k, initL0Device(MapAt(m, k), r)) ELSE m

\* XPUInfo::initNVML (Windows): the first Device at the reported address
NVMLTarget(m, r) ==
    FirstMatch(m, {e.key : e \in {x \in m : x.dev.PCIAddress = r.pciAddr}})

NVMLDevices(m, r) ==
    LET k == NVMLTarget(m, r)
    IN IF k # 0 THEN MapUpdate(m, k, initNVMLDevice(MapAt(m, k), r)) ELSE m

\* SetupDeviceInfo::getByLUID, getAtAddress, getByName over the list infos:
\* the first of the matching indexes hits, 0 when none matches
FirstInfo(hits) ==
    IF hits = {} THEN 0 ELSE CHOOSE i \in hits : \A j \in hits : i <= j

getByLUID(infos, inLUID) ==
    FirstInfo({i \in 1..Len(infos) :
                 infos[i].DeviceLUID # 0 /\ inLUID = infos[i].DeviceLUID})

getAtAddress(infos, inAddress) ==
    FirstInfo({i \in 1..Len(infos) : inAddress = infos[i].LocationInfo})

getByName(infos, inName) ==
    FirstInfo({i \in 1..Len(infos) : inName = infos[i].DriverDesc})

\* XPUInfo::XPUInfo, body of the SetupAPI loop over m_Devices
SetupAPIDevice(d, infos) ==
    LET byLuid == getByLUID(infos, getLUID(d))
        pSDI == IF byLuid # 0 THEN byLuid
                ELSE IF isValidPCIAddr(d.PCIAddress)
                     THEN getAtAddress(infos, d.PCIAddress)
                     ELSE getByName(infos, d.Description)
        d1 == IF d.pDriverInfo = 0
              THEN [d EXCEPT !.pDriverInfo = pSDI,
                             !.validAPIs = @ \cup {"SETUPAPI"},
                             !.driverVersionValid =
                                 IF @ THEN @ ELSE infos[pSDI].versionOK]
              ELSE d
        d2 == IF ~isValidPCIAddr(d1.PCIAddress)
              THEN [d1 EXCEPT !.PCIAddress = infos[pSDI].LocationInfo]
              ELSE d1
    IN IF pSDI # 0 THEN d2 ELSE d

SetupAPIDevices(m, infos) ==
    {[key |-> e.key, dev |-> SetupAPIDevice(e.dev, infos)] : e \in m}

\* XPUInfo::finalInitDXGI
\* a finalInitDXGI that classifies every device, set or not
finalInitDXGIDevice_Overwrite(d) ==
    IF d.DedicatedVideoMemory <= k256MB /\ d.SharedSystemMemory >= k2GB
    THEN [d EXCEPT !.UMA = UMA_INTEGRATED]
    ELSE IF d.DedicatedVideoMemory >= k2GB
         THEN [d EXCEPT !.UMA = NONUMA_DISCRETE]
         ELSE d

finalInitDXGIDevice(d) ==
    IF d.UMA = UMA_UNKNOWN
    THEN IF d.DedicatedVideoMemory <= k256MB /\ d.SharedSystemMemory >= k2GB
         THEN [d EXCEPT !.UMA = UMA_INTEGRATED]
         ELSE IF d.DedicatedVideoMemory >= k2GB
              THEN [d EXCEPT !.UMA = NONUMA_DISCRETE]
              ELSE d
    ELSE d

finalInitDXGI(m) ==
    {[key |-> e.key, dev |-> finalInitDXGIDevice(e.dev)] : e \in m}

(***************************************************************************)
(* What the backends may report.  luids is the set of adapter identities   *)
(* present in the system; rich widens the per-field values.                *)
(***************************************************************************)
IntelName == <<"intel", "arc">>
NvName == <<"nvidia", "rtx">>
DescOf(v) == IF v = kVendorId_Intel THEN IntelName ELSE NvName

Addr1 == <<0, 3, 0, 0>>
Addr2 == <<0, 1, 0, 0>>

DX11Success ==
    [getStatus |-> "GGF_SUCCESS", Version |-> 2, GPUMaxFreq |-> 1200,
     EUCount |-> 96]

DX11Reports(rich) ==
    {DX11Success}
    \cup (IF rich
          THEN {[getStatus |-> "GGF_ERROR", Version |-> 0, GPUMaxFreq |-> 0,
                 EUCount |-> 0]}
          ELSE {})

DXGIReport(l, v, dv, ok, x) ==
    [luid |-> l, VendorId |-> v, Description |-> DescOf(v),
     DedicatedVideoMemory |-> IF v = kVendorId_Intel THEN 128 ELSE 4096,
     SharedSystemMemory |-> 8192,
     driverVersionValid |-> dv, regCloseKeyOK |-> ok, dx11 |-> x]

\* regCloseKeyOK: RegCloseKey succeeds in DeviceDriverVersion's constructor
DXGIReports(luids, rich) ==
    {DXGIReport(l, v, TRUE, TRUE, x) :
        l \in luids, v \in {kVendorId_Intel, kVendorId_nVidia},
        x \in DX11Reports(rich)}
    \cup {DXGIReport(l, kVendorId_Intel, dv, ok, DX11Success) :
            l \in luids, dv \in BOOLEAN, ok \in BOOLEAN}

DXCoreReport(l, hw, g, iv, i, dt, f) ==
    [luid |-> l, VendorId |-> kVendorId_Intel, Description |-> IntelName,
     DedicatedVideoMemory |-> 128, SharedSystemMemory |-> 8192,
     driverVersionValid |-> TRUE, isHardware |-> hw, isGraphics |-> g,
     isIntegratedValid |-> iv, isIntegrated |-> i, isDetachable |-> dt,
     failed |-> f]

\* failed: one of handleAdapter's THROW_IF_FAILED queries fails
DXCoreReports(luids, rich) ==
    {DXCoreReport(l, TRUE, g, iv, IF rich THEN g ELSE TRUE, dt, FALSE) :
        l \in luids, g \in BOOLEAN, iv \in BOOLEAN,
        dt \in (IF rich THEN BOOLEAN ELSE {FALSE})}
    \cup {DXCoreReport(l, hw, TRUE, TRUE, TRUE, FALSE, f) :
            l \in luids, hw \in BOOLEAN, f \in BOOLEAN}

IGCLReport(l, v, i, po, ms, so, sp, a) ==
    [luid |-> l, pci_vendor_id |-> v, integrated |-> i, pciPropsOK |-> po,
     maxSpeed |-> ms, pciStateOK |-> so, speed |-> sp, address |-> a]

\* maxSpeed is <<gen, width, maxBandwidth>>, speed is <<gen, width>>; IGCL
\* reports -1 for a value it does not know
IGCLReports(luids, rich) ==
    {IGCLReport(l, kVendorId_Intel, i, TRUE, ms, TRUE, sp,
                IF i \/ ~rich THEN Addr1 ELSE PCIAddressDefault) :
        l \in luids, i \in BOOLEAN,
        ms \in (IF rich THEN {<<4, 16, 64>>, <<NotSet, NotSet, NotSet>>}
                ELSE {<<4, 16, 64>>}),
        sp \in (IF rich THEN {<<4, 8>>, <<2, 8>>} ELSE {<<4, 8>>})}
    \cup (IF rich
          THEN {IGCLReport(l, v, TRUE, po, <<0, 0, 0>>, so,
                           <<NotSet, NotSet>>, Addr1) :
                    l \in luids, v \in {kVendorId_Intel, kVendorId_nVidia},
                    po \in BOOLEAN, so \in BOOLEAN}
          ELSE {})

OpenCLReport(lv, l, nm, ok, uok, u) ==
    [luidValid |-> lv, luid |-> l, devName |-> nm, maxCUok |-> ok,
     maxCU |-> 12, maxFreqok |-> ok, maxFreq |-> 1300, isUMAok |-> uok,
     isUMA |-> u]

OpenCLReports(luids, rich) ==
    {OpenCLReport(TRUE, l, IntelName, TRUE, TRUE, u) :
        l \in luids, u \in BOOLEAN}
    \cup (IF rich
          THEN {OpenCLReport(FALSE, 0, nm, ok, uok, TRUE) :
                    nm \in {<<"arc">>, <<"rtx">>, <<"radeon">>},
                    ok \in BOOLEAN, uok \in BOOLEAN}
          ELSE {})

L0Report(le, l, po, a) ==
    [luidExt |-> le, luid |-> l, name |-> IntelName, numEUs |-> 128,
     coreClockRate |-> 1400, pciOK |-> po, address |-> a]

L0Reports(luids, rich) ==
    {L0Report(TRUE, l, TRUE, Addr1) : l \in luids}
    \cup (IF rich
          THEN {L0Report(le, 0, po, Addr2) : le \in BOOLEAN, po \in BOOLEAN}
          ELSE {})

SetupInfoLists(luids, rich) ==
    {<<>>}
    \cup {<<[DeviceLUID |-> l, LocationInfo |-> Addr2, DriverDesc |-> NvName,
             versionOK |-> TRUE]>> : l \in luids}
    \cup (IF rich
          THEN {<<[DeviceLUID |-> 0, LocationInfo |-> Addr1,
                   DriverDesc |-> nm, versionOK |-> TRUE]>> :
                    nm \in {IntelName, NvName}}
          ELSE {})

NVMLReport(a, ok, lk) ==
    [pciAddr |-> a, coresOK |-> ok, numGPUCores |-> 2048, freqOK |-> ok,
     freqSM |-> 1500, linkOK |-> lk, link |-> <<3, 8>>, cccOK |-> ok,
     ccc |-> 8]

NVMLReports(rich) ==
    {NVMLReport(Addr2, TRUE, TRUE)}
    \cup (IF rich
          THEN {NVMLReport(Addr1, ok, ok) : ok \in BOOLEAN}
               \cup {NVMLReport(Addr2, FALSE, TRUE)}
          ELSE {})

(***************************************************************************)
(* XPUInfo::XPUInfo, one action per step of the caller's thread.           *)
(***************************************************************************)
Stages ==
    <<"DXGI", "DXCore", "IGCL", "OpenCL", "L0", "SetupAPI", "NVML", "final",
      "join">>

StageEnabled(s, mask, m) ==
    CASE s = "DXGI" -> {"DXGI", "DX11_INTEL_PERF_COUNTER"} \cap mask # {}
      [] s = "DXCore" -> "DXCORE" \in mask
      [] s = "IGCL" -> "IGCL" \in mask
      [] s = "OpenCL" ->
            "OPENCL" \in mask /\ \E e \in m : e.dev.m_type = DEVICE_TYPE_GPU
      [] s = "L0" ->
            "LEVELZERO" \in mask /\ \E e \in m : e.dev.VendorId = kVendorId_Intel
      [] s = "SetupAPI" -> "SETUPAPI" \in mask
      [] s = "NVML" ->
            "NVML" \in mask /\ \E e \in m : e.dev.VendorId = kVendorId_nVidia
      [] OTHER -> TRUE

\* the first stage at or after position i that the constructor enters
RECURSIVE StageFrom(_, _, _)
StageFrom(i, mask, m) ==
    IF StageEnabled(Stages[i], mask, m) THEN Stages[i]
    ELSE StageFrom(i + 1, mask, m)

StageIndex(s) == CHOOSE i \in 1..Len(Stages) : Stages[i] = s

\* an exception leaves the constructor: wmiThreadPtr is destroyed during
\* unwinding, and destroying a joinable std::thread calls std::terminate
Unwind ==
    IF wmiThread \in {"started", "loaded", "finished"}
    THEN "terminated" ELSE "raised"

\* the probe application recorded in last, when the history is tracked
Applied(probe, r) ==
    IF last.track
    THEN [track |-> TRUE, probe |-> probe, r |-> r,
          n |-> IF last.probe = probe /\ last.r = r THEN 2 ELSE 1]
    ELSE last

ctorStart(sizeOK) ==
    /\ pc = "start"
    /\ IF sizeOK
       THEN /\ pc' = StageFrom(1, initMask, m_Devices)
            /\ wmiThread' = IF "WMI" \in initMask THEN "started" ELSE "none"
            /\ UNCHANGED handlerCalls
       ELSE /\ handlerCalls' = handlerCalls + 1
            /\ pc' = Unwind
            /\ UNCHANGED wmiThread
    /\ UNCHANGED <<initMask, m_Devices, m_UsedAPIs, iter, wmiLocal, log, last>>
    /\ UNCHANGED <<orderVars, telVars, fnVars>>

\* the running probe's enumeration ends
ctorAdvance ==
    /\ pc \in {"DXGI", "DXCore", "IGCL", "OpenCL", "L0", "NVMLDevices"}
    /\ pc' = IF pc = "NVMLDevices" THEN "final"
             ELSE StageFrom(StageIndex(pc) + 1, initMask, m_Devices)
    /\ iter' = 0
    /\ last' = [last EXCEPT !.probe = "none", !.r = <<>>, !.n = 0]
    /\ UNCHANGED <<initMask, m_Devices, m_UsedAPIs, wmiThread, wmiLocal,
                   handlerCalls, log>>
    /\ UNCHANGED <<orderVars, telVars, fnVars>>

initDXGI(r) ==
    /\ pc = "DXGI"
    /\ iter < MaxReports
    /\ IF r.regCloseKeyOK
       THEN /\ m_Devices' = DXGIDevices(m_Devices, initMask, iter, r)
            /\ m_UsedAPIs' =
                 IF r.driverVersionValid
                 THEN m_UsedAPIs \cup {"DXGI"}
                      \cup (IF r.VendorId = kVendorId_Intel
                            THEN MapAt(m_Devices', r.luid).validAPIs
                                 \cap initMask \cap {"DX11_INTEL_PERF_COUNTER"}
                            ELSE {})
                 ELSE m_UsedAPIs
            /\ iter' = iter + 1
            /\ last' = Applied("DXGI", r)
            /\ UNCHANGED <<pc, handlerCalls>>
       ELSE /\ handlerCalls' = handlerCalls + 1
            /\ pc' = Unwind
            /\ UNCHANGED <<m_Devices, m_UsedAPIs, iter, last>>
    /\ UNCHANGED <<initMask, wmiThread, wmiLocal, log>>
    /\ UNCHANGED <<orderVars, telVars, fnVars>>

initDXCore(r) ==
    /\ pc = "DXCore"
    /\ iter < MaxReports
    /\ IF ~r.failed
       THEN /\ m_Devices' = DXCoreDevices(m_Devices, r)
            /\ log' = log \cup DXCoreLog(m_Devices, r)
            /\ m_UsedAPIs' = IF r.isHardware
                             THEN m_UsedAPIs \cup {"DXCORE"} ELSE m_UsedAPIs
            /\ iter' = iter + 1
            /\ last' = Applied("DXCore", r)
            /\ UNCHANGED pc
       ELSE /\ pc' = Unwind
            /\ UNCHANGED <<m_Devices, m_UsedAPIs, iter, log, last>>
    /\ UNCHANGED <<initMask, wmiThread, wmiLocal, handlerCalls>>
    /\ UNCHANGED <<orderVars, telVars, fnVars>>

initIGCL(r) ==
    /\ pc = "IGCL"
    /\ iter < MaxReports
    /\ m_Devices' = IGCLDevices(m_Devices, r)
    /\ m_UsedAPIs' =
         IF r.pci_vendor_id = kVendorId_Intel /\ MapFind(m_Devices, r.luid) # {}
         THEN m_UsedAPIs \cup {"IGCL"} ELSE m_UsedAPIs
    /\ iter' = iter + 1
    /\ last' = Applied("IGCL", r)
    /\ UNCHANGED <<pc, initMask, wmiThread, wmiLocal, handlerCalls, log>>
    /\ UNCHANGED <<orderVars, telVars, fnVars>>

initOpenCL(r) ==
    /\ pc = "OpenCL"
    /\ iter < MaxReports
    /\ m_Devices' = OpenCLDevices(m_Devices, r)
    /\ m_UsedAPIs' = IF OpenCLTarget(m_Devices, r) # 0
                     THEN m_UsedAPIs \cup {"OPENCL"} ELSE m_UsedAPIs
    /\ iter' = iter + 1
    /\ last' = Applied("OpenCL", r)
    /\ UNCHANGED <<pc, initMask, wmiThread, wmiLocal, handlerCalls, log>>
    /\ UNCHANGED <<orderVars, telVars, fnVars>>

initL0(r) ==
    /\ pc = "L0"
    /\ iter < MaxReports
    /\ m_Devices' = L0Devices(m_Devices, r)
    /\ m_UsedAPIs' = IF L0Target(m_Devices, r) # 0
                     THEN m_UsedAPIs \cup {"LEVELZERO"} ELSE m_UsedAPIs
    /\ iter' = iter + 1
    /\ last' = Applied("L0", r)
    /\ UNCHANGED <<pc, initMask, wmiThread, wmiLocal, handlerCalls, log>>
    /\ UNCHANGED <<orderVars, telVars, fnVars>>

\* the SetupAPI block of the constructor
initSetupAPI(infos) ==
    /\ pc = "SetupAPI"
    /\ m_Devices' = SetupAPIDevices(m_Devices, infos)
    /\ m_UsedAPIs' =
         IF \E e \in m_Devices :
                e.dev.pDriverInfo = 0
                /\ SetupAPIDevice(e.dev, infos).pDriverInfo # 0
         THEN m_UsedAPIs \cup {"SETUPAPI"} ELSE m_UsedAPIs
    /\ pc' = StageFrom(StageIndex(pc) + 1, initMask, m_Devices')
    /\ UNCHANGED <<initMask, iter, wmiThread, wmiLocal, handlerCalls, log,
                   last>>
    /\ UNCHANGED <<orderVars, telVars, fnVars>>

\* XPUInfo::initNVML up to the device loop
nvmlDeviceGetCount(initOK, countOK) ==
    /\ pc = "NVML"
    /\ IF initOK /\ countOK
       THEN /\ m_UsedAPIs' = m_UsedAPIs \cup {"NVML"}
            /\ pc' = "NVMLDevices"
            /\ UNCHANGED log
       ELSE /\ log' = IF initOK
                      THEN log \cup {"Failed to query device count"} ELSE log
            /\ pc' = "final"
            /\ UNCHANGED m_UsedAPIs
    /\ UNCHANGED <<initMask, m_Devices, iter, wmiThread, wmiLocal,
                   handlerCalls, last>>
    /\ UNCHANGED <<orderVars, telVars, fnVars>>

initNVML(r) ==
    /\ pc = "NVMLDevices"
    /\ iter < MaxReports
    /\ m_Devices' = NVMLDevices(m_Devices, r)
    /\ iter' = iter + 1
    /\ last' = Applied("NVML", r)
    /\ UNCHANGED <<pc, initMask, m_UsedAPIs, wmiThread, wmiLocal,
                   handlerCalls, log>>
    /\ UNCHANGED <<orderVars, telVars, fnVars>>

ctorFinalInitDXGI ==
    /\ pc = "final"
    /\ m_Devices' = IF "DXGI" \in initMask THEN finalInitDXGI(m_Devices)
                    ELSE m_Devices
    /\ pc' = "join"
    /\ UNCHANGED <<initMask, m_UsedAPIs, iter, wmiThread, wmiLocal,
                   handlerCalls, log, last>>
    /\ UNCHANGED <<orderVars, telVars, fnVars>>

\* wmiThreadPtr->join(), then SystemMemoryInfo's constructor
ctorJoin(memInfoOK) ==
    /\ pc = "join"
    /\ wmiThread \in {"none", "finished"}
    /\ wmiThread' = IF wmiThread = "finished" THEN "joined" ELSE wmiThread
    /\ IF memInfoOK
       THEN pc' = "done" /\ UNCHANGED handlerCalls
       ELSE pc' = "raised" /\ handlerCalls' = handlerCalls + 1
    /\ UNCHANGED <<initMask, m_Devices, m_UsedAPIs, iter, wmiLocal, log, last>>
    /\ UNCHANGED <<orderVars, telVars, fnVars>>

(***************************************************************************)
(* XPUInfo::initWMI on the worker thread.  m_UsedAPIs = m_UsedAPIs | WMI   *)
(* is a plain load followed by a plain store.                              *)
(***************************************************************************)
wmiLoad(systemInfoOK) ==
    /\ wmiThread = "started"
    /\ pc # "terminated"
    /\ IF systemInfoOK
       THEN wmiLocal' = m_UsedAPIs /\ wmiThread' = "loaded"
       ELSE wmiThread' = "finished" /\ UNCHANGED wmiLocal
    /\ UNCHANGED <<pc, initMask, m_Devices, m_UsedAPIs, iter, handlerCalls,
                   log, last>>
    /\ UNCHANGED <<orderVars, telVars, fnVars>>

wmiStore ==
    /\ wmiThread = "loaded"
    /\ pc # "terminated"
    /\ m_UsedAPIs' = wmiLocal \cup {"WMI"}
    /\ wmiThread' = "finished"
    /\ UNCHANGED <<pc, initMask, m_Devices, iter, wmiLocal, handlerCalls,
                   log, last>>
    /\ UNCHANGED <<orderVars, telVars, fnVars>>

(***************************************************************************)
(* Construction of the registry on a system with two adapters, by the      *)
(* probes that create Devices (DXGI, DXCore) and the WMI worker.           *)
(***************************************************************************)
Luids == {1, 2}

InitMasks ==
    {{"DXGI", "DX11_INTEL_PERF_COUNTER", "DXCORE", "WMI"},
     {"DXGI", "DX11_INTEL_PERF_COUNTER", "DXCORE"},
     {"DXCORE", "WMI"}}

InitCtor(masks, track) ==
    /\ pc = "start"
    /\ initMask \in masks
    /\ m_Devices = {}
    /\ m_UsedAPIs = {}
    /\ iter = 0
    /\ wmiThread = "none"
    /\ wmiLocal = {}
    /\ handlerCalls = 0
    /\ log = {}
    /\ last = [track |-> track, probe |-> "none", r |-> <<>>, n |-> 0]

\* the steps of the constructor that are not a probe's
CtorSteps ==
    \/ \E sizeOK \in BOOLEAN : ctorStart(sizeOK)
    \/ ctorAdvance
    \/ ctorFinalInitDXGI
    \/ \E memInfoOK \in BOOLEAN : ctorJoin(memInfoOK)

Init == InitCtor(InitMasks, TRUE) /\ orderIdle /\ telIdle /\ fnIdle

Next ==
    \/ CtorSteps
    \/ \E r \in DXGIReports(Luids, FALSE) : initDXGI(r)
    \/ \E r \in DXCoreReports(Luids, FALSE) : initDXCore(r)
    \/ \E systemInfoOK \in BOOLEAN : wmiLoad(systemInfoOK)
    \/ wmiStore

Spec == Init /\ [][Next]_vars

(***************************************************************************)
(* Properties of the registry under construction.                          *)
(***************************************************************************)
DeviceTypeMismatch == "ERROR: DeviceType mismatch!"

\* the step handles a DXCore report for a registered identity whose kind
\* differs from the registered Device's
MismatchStep ==
    /\ pc = "DXCore"
    /\ iter' = iter + 1
    /\ last'.probe = "DXCore"
    /\ last'.r.isHardware
    /\ MapFind(m_Devices, last'.r.luid) # {}
    /\ MapAt(m_Devices, last'.r.luid).m_type # DXCoreDevType(last'.r)

SameObject(d, e) ==
    /\ e.m_adapterIndex = d.m_adapterIndex
    /\ e.AdapterLuid = d.AdapterLuid
    /\ e.VendorId = d.VendorId
    /\ e.Description = d.Description
    /\ e.DedicatedVideoMemory = d.DedicatedVideoMemory
    /\ d.validAPIs \subseteq e.validAPIs

\* C6: the registry holds at most one Device per identity, every Device is
\* filed under its own identity, and a step never removes, replaces or
\* re-keys a registered Device: a later report updates it in place
C6_OneDevicePerIdentity ==
    /\ [](\A e1, e2 \in m_Devices : e1.key = e2.key => e1 = e2)
    /\ [](\A e \in m_Devices : getLUID(e.dev) = e.key)
    /\ [][\A e \in m_Devices :
            \E f \in m_Devices' : f.key = e.key /\ SameObject(e.dev, f.dev)]_vars

\* a DXGI report for a registered identity, carrying another descriptor,
\* has been handled and the Device registered first is still there
C6_Witness ==
    /\ last.probe = "DXGI"
    /\ last.r.driverVersionValid
    /\ MapFind(m_Devices, last.r.luid) # {}
    /\ MapAt(m_Devices, last.r.luid).VendorId # last.r.VendorId
    /\ MapAt(m_Devices, last.r.luid).m_adapterIndex = 0
    /\ iter = 2

\* C7: construction ends either by returning, with the WMI worker joined,
\* or by raising an error to the caller; it never ends the process
C7_ReturnsOrRaises ==
    /\ pc # "terminated"
    /\ pc = "done" => wmiThread \in {"none", "joined"}

(***************************************************************************)
(* Every probe merging into the Device of one adapter, with the full range *)
(* of values each backend may report.                                      *)
(***************************************************************************)
OneLuid == {1}

MergeMasks == {API_TYPE_ALL \ {"WMI"}}

InitMerge == InitCtor(MergeMasks, TRUE) /\ orderIdle /\ telIdle /\ fnIdle

NextMerge ==
    \/ CtorSteps
    \/ \E r \in DXGIReports(OneLuid, TRUE) : initDXGI(r)
    \/ \E r \in DXCoreReports(OneLuid, TRUE) : initDXCore(r)
    \/ \E r \in IGCLReports(OneLuid, TRUE) : initIGCL(r)
    \/ \E r \in OpenCLReports(OneLuid, TRUE) : initOpenCL(r)
    \/ \E r \in L0Reports(OneLuid, TRUE) : initL0(r)
    \/ \E infos \in SetupInfoLists(OneLuid, TRUE) : initSetupAPI(infos)
    \/ \E initOK, countOK \in BOOLEAN : nvmlDeviceGetCount(initOK, countOK)
    \/ \E r \in NVMLReports(TRUE) : initNVML(r)

SpecMerge == InitMerge /\ [][NextMerge]_vars

(***************************************************************************)
(* Properties of the per-field merge.                                      *)
(***************************************************************************)
\* the property fields of a Device whose "unset" value is -1
SignedFields ==
    {"NumComputeUnits", "FreqMaxMHz", "PCIDeviceGen", "PCIDeviceWidth",
     "PCIDeviceMaxBandwidth", "PCICurrentGen", "PCICurrentWidth",
     "PCICurrentMaxBandwidth", "IsHighPerformance", "IsDetachable",
     "cudaComputeCapability"}

\* the fields a probe writes with updateIfNotZero
NonZeroFields ==
    {"PCIDeviceGen", "PCIDeviceWidth", "PCIDeviceMaxBandwidth",
     "PCICurrentGen", "PCICurrentWidth"}

\* the Device registered under key k after the step
After(k) == MapAt(m_Devices', k)

\* C2, as the specification states it: a property field that holds a set
\* value changes only under set-if-nonzero, to a nonzero incoming value;
\* every other change of a field starts from its unset value
C2_ThreeRulesOnly ==
    [][\A e \in m_Devices :
        /\ \A f \in SignedFields :
              (e.dev[f] # NotSet /\ After(e.key)[f] # e.dev[f])
                  => (f \in NonZeroFields /\ After(e.key)[f] # 0)
        /\ e.dev.UMA # UMA_UNKNOWN => After(e.key).UMA = e.dev.UMA]_vars

\* C2, as the code has it: besides the three rules, NVML stores its core
\* count and compute capability over any earlier value, OpenCL replaces a
\* memory-architecture class that disagrees with its own answer, and IGCL
\* recomputes the current-link bandwidth; every other property field that
\* holds a set value changes only under set-if-nonzero, in the IGCL probe
C2_RulesAndExceptions ==
    [][\A e \in m_Devices :
        /\ \A f \in SignedFields :
              (e.dev[f] # NotSet /\ After(e.key)[f] # e.dev[f])
                  => \/ f \in NonZeroFields /\ After(e.key)[f] # 0
                        /\ pc = "IGCL"
                     \/ f \in {"NumComputeUnits", "cudaComputeCapability"}
                        /\ pc = "NVMLDevices"
                     \/ f = "PCICurrentMaxBandwidth" /\ pc = "IGCL"
        /\ (e.dev.UMA # UMA_UNKNOWN /\ After(e.key).UMA # e.dev.UMA)
              => pc = "OpenCL" /\ After(e.key).UMA # UMA_UNKNOWN
        /\ e.dev.m_type # DEVICE_TYPE_UNKNOWN
              => After(e.key).m_type = e.dev.m_type
        /\ isValidPCIAddr(e.dev.PCIAddress)
              => After(e.key).PCIAddress = e.dev.PCIAddress
        /\ e.dev.pDriverInfo # 0
              => After(e.key).pDriverInfo = e.dev.pDriverInfo]_vars

\* NVML has stored its core count over the count OpenCL had stored
C2_Witness ==
    /\ pc = "NVMLDevices"
    /\ last.probe = "NVML"
    /\ \E e \in m_Devices :
          /\ e.dev.NumComputeUnits = last.r.numGPUCores
          /\ e.dev.FreqMaxMHz = 1300
          /\ {"OPENCL", "NVML"} \subseteq e.dev.validAPIs

\* C3: a property field that holds a set value is never returned to its
\* unset value by a later step, whatever that step's probe reports
C3_SetFieldsStaySet ==
    [][\A e \in m_Devices :
        /\ \A f \in SignedFields :
              e.dev[f] # NotSet => After(e.key)[f] # NotSet
        /\ e.dev.UMA # UMA_UNKNOWN => After(e.key).UMA # UMA_UNKNOWN
        /\ isValidPCIAddr(e.dev.PCIAddress)
              => isValidPCIAddr(After(e.key).PCIAddress)]_vars

\* the step applies the report the previous step applied, in the same probe
TwiceInARow == iter' = iter + 1 /\ last.n >= 1 /\ last'.n = 2

\* C4: applying a probe's report to the registry a second time in a row
\* leaves every Device as the first application left it
C4_MergeIdempotent == [][TwiceInARow => m_Devices' = m_Devices]_vars

\* IGCL has applied one informative report twice in a row
C4_Witness ==
    /\ last.probe = "IGCL"
    /\ last.n = 2
    /\ last.r.maxSpeed = <<4, 16, 64>>
    /\ last.r.speed = <<2, 8>>
    /\ \E e \in m_Devices :
          /\ e.key = last.r.luid
          /\ e.dev.PCICurrentGen = 2
          /\ e.dev.PCICurrentMaxBandwidth = 16

(***************************************************************************)
(* Two probes merged into the registry in both orders.  The registry holds *)
(* the Device DXGI created for the adapter; each probe application is what *)
(* XPUInfo::init* does for one adapter its backend enumerates.             *)
(***************************************************************************)
ProbeApplications ==
    {[probe |-> "DXCore", r |-> r] :
        r \in {x \in DXCoreReports(OneLuid, TRUE) : ~x.failed}}
    \cup {[probe |-> "IGCL", r |-> r] : r \in IGCLReports(OneLuid, TRUE)}
    \cup {[probe |-> "OpenCL", r |-> r] : r \in OpenCLReports(OneLuid, TRUE)}
    \cup {[probe |-> "L0", r |-> r] : r \in L0Reports(OneLuid, TRUE)}
    \cup {[probe |-> "SetupAPI", r |-> [infos |-> x]] :
            x \in SetupInfoLists(OneLuid, TRUE) \ {<<>>}}
    \cup {[probe |-> "NVML", r |-> r] : r \in NVMLReports(TRUE)}

ApplyProbe(m, p) ==
    CASE p.probe = "DXCore" -> DXCoreDevices(m, p.r)
      [] p.probe = "IGCL" -> IGCLDevices(m, p.r)
      [] p.probe = "OpenCL" -> OpenCLDevices(m, p.r)
      [] p.probe = "L0" -> L0Devices(m, p.r)
      [] p.probe = "SetupAPI" -> SetupAPIDevices(m, p.r.infos)
      [] p.probe = "NVML" -> NVMLDevices(m, p.r)

\* the fields each probe assigns; its bit of validAPIs is named by the API
Writes(probe) ==
    CASE probe = "DXCore" ->
            {"UMA", "IsHighPerformance", "IsDetachable", "DXCORE"}
      [] probe = "IGCL" ->
            {"m_type", "UMA", "PCIDeviceGen", "PCIDeviceWidth",
             "PCIDeviceMaxBandwidth", "PCICurrentGen", "PCICurrentWidth",
             "PCICurrentMaxBandwidth", "PCIAddress", "IGCL"}
      [] probe = "OpenCL" ->
            {"m_OpenCLAdapterName", "NumComputeUnits", "FreqMaxMHz", "UMA",
             "OPENCL"}
      [] probe = "L0" ->
            {"NumComputeUnits", "FreqMaxMHz", "PCIAddress", "LEVELZERO"}
      [] probe = "SetupAPI" ->
            {"pDriverInfo", "driverVersionValid", "PCIAddress", "SETUPAPI"}
      [] probe = "NVML" ->
            {"NumComputeUnits", "FreqMaxMHz", "PCICurrentGen",
             "PCICurrentWidth", "cudaComputeCapability", "NVML"}

\* the fields each probe reads to select its Device or to decide a write,
\* other than the fields it assigns
Reads(probe) ==
    CASE probe = "DXCore" -> {"AdapterLuid", "m_type"}
      [] probe = "IGCL" -> {"AdapterLuid"}
      [] probe = "OpenCL" -> {"AdapterLuid", "Description"}
      [] probe = "L0" -> {"AdapterLuid", "Description", "m_OpenCLAdapterName"}
      [] probe = "SetupAPI" -> {"AdapterLuid", "PCIAddress", "Description"}
      [] probe = "NVML" -> {"PCIAddress"}

OrderBases ==
    {DXGIDevices({}, {"DXGI"}, 0, r) :
        r \in {x \in DXGIReports(OneLuid, FALSE) :
                 x.driverVersionValid /\ x.regCloseKeyOK}}

InitOrder ==
    /\ InitCtor({{}}, FALSE)
    /\ telIdle
    /\ fnIdle
    /\ \E base \in OrderBases, p, q \in ProbeApplications :
          /\ p.probe # q.probe
          /\ order = [base |-> base, first |-> p, second |-> q]
    /\ regAB = {}
    /\ regBA = {}
    /\ phase = 0

mergeFirstSecond ==
    /\ phase = 0
    /\ regAB' = ApplyProbe(ApplyProbe(order.base, order.first), order.second)
    /\ phase' = 1
    /\ UNCHANGED <<order, regBA, ctorVars, telVars, fnVars>>

mergeSecondFirst ==
    /\ phase = 1
    /\ regBA' = ApplyProbe(ApplyProbe(order.base, order.second), order.first)
    /\ phase' = 2
    /\ UNCHANGED <<order, regAB, ctorVars, telVars, fnVars>>

NextOrder == mergeFirstSecond \/ mergeSecondFirst

SpecOrder == InitOrder /\ [][NextOrder]_vars

\* the fields in which Device e differs from Device d
ChangedFields(d, e) ==
    {f \in DOMAIN d \ {"validAPIs"} : d[f] # e[f]}
    \cup (e.validAPIs \ d.validAPIs)

\* the fields in which registry n differs from registry m
Changed(m, n) ==
    UNION {ChangedFields(MapAt(m, k), MapAt(n, k)) : k \in MapKeys(m)}

DisjointWrites ==
    Writes(order.first.probe) \cap Writes(order.second.probe) = {}

NoReadOfOthersWrite ==
    /\ Reads(order.first.probe) \cap Writes(order.second.probe) = {}
    /\ Reads(order.second.probe) \cap Writes(order.first.probe) = {}

\* C5 as stated: two probes that write disjoint field sets leave the Device
\* in the same final state whichever is merged first.
C5_OrderIndependent ==
    (phase = 2 /\ DisjointWrites) => regAB = regBA

\* C5 amended: every probe changes only the fields listed for it, and two
\* probes that write disjoint field sets, neither of which reads a field
\* the other writes, leave the Device in the same final state whichever is
\* merged first.
C5_OrderIndependentWithoutReads ==
    phase = 2 =>
        LET a == ApplyProbe(order.base, order.first)
            b == ApplyProbe(order.base, order.second)
        IN /\ Changed(order.base, a) \subseteq Writes(order.first.probe)
           /\ Changed(a, regAB) \subseteq Writes(order.second.probe)
           /\ Changed(order.base, b) \subseteq Writes(order.second.probe)
           /\ Changed(b, regBA) \subseteq Writes(order.first.probe)
           /\ (DisjointWrites /\ NoReadOfOthersWrite) => regAB = regBA

\* both probes changed the Device, in both orders, and the results agree
C5_Witness ==
    /\ phase = 2
    /\ DisjointWrites
    /\ NoReadOfOthersWrite
    /\ Changed(order.base, ApplyProbe(order.base, order.first)) # {}
    /\ Changed(ApplyProbe(order.base, order.first), regAB) # {}
    /\ Changed(order.base, ApplyProbe(order.base, order.second)) # {}
    /\ regAB = regBA

(***************************************************************************)
(* TelemetryTracker.  The application thread constructs the tracker and    *)
(* calls start(), stop() and getLog(); the threadpool queues a callback at *)
(* each expiry of the timer and runs MyTimerCallback on its own thread.    *)
(* SetThreadpoolTimer with a null due time stops the queuing of new        *)
(* callbacks; callbacks already queued or running still complete.          *)
(***************************************************************************)
\* validAPIs of the Device a tracker is constructed for
TrackedAPIs ==
    {{"DXGI", "DXCORE"},
     {"DXGI", "DXCORE", "IGCL", "LEVELZERO"},
     {"DXGI", "DXCORE", "IGCL", "IGCL_L0"},
     {"DXGI", "DXCORE", "NVML"},
     {"DXGI", "OPENCL"}}

Periods == {0, 16}

\* what the system answers during construction
CtorEnvOK ==
    [pdhOpenOK |-> TRUE, pdhAddOK |-> TRUE, timerOK |-> TRUE, qpfOK |-> TRUE,
     freqEnumOK |-> TRUE, memDomain |-> TRUE, l0Domains |-> {"GPU", "MEDIA"}]

CtorEnvs ==
    {CtorEnvOK,
     [CtorEnvOK EXCEPT !.pdhOpenOK = FALSE],
     [CtorEnvOK EXCEPT !.pdhAddOK = FALSE],
     [CtorEnvOK EXCEPT !.timerOK = FALSE],
     [CtorEnvOK EXCEPT !.qpfOK = FALSE],
     [CtorEnvOK EXCEPT !.freqEnumOK = FALSE],
     [CtorEnvOK EXCEPT !.memDomain = FALSE, !.l0Domains = {}]}

\* TelemetryTracker::InitIGCL, past its XPUINFO_REQUIREs
InitIGCL(mask, env) ==
    IF env.memDomain THEN mask \cup {"FREQUENCY_MEMORY"} ELSE mask

\* TelemetryTracker::InitL0
InitL0(mask, apis, domains) ==
    mask
    \cup (IF "GPU" \in domains /\ "IGCL" \notin apis
          THEN {"FREQUENCY"} ELSE {})
    \cup (IF "MEDIA" \in domains THEN {"FREQUENCY_MEDIA"} ELSE {})

TelemetryTrackerCtor(apis, msPeriod, env) ==
    /\ tracker = "none"
    /\ deviceAPIs' = apis
    /\ LET pdhRequire == env.pdhOpenOK => env.pdhAddOK
           qpfRequire == "IGCL" \in apis \/ env.qpfOK
           withIGCL == {"IGCL", "IGCL_L0"} \subseteq apis
           igclRequire == withIGCL => env.freqEnumOK
           mask1 == IF withIGCL THEN InitIGCL({}, env) ELSE {}
       IN /\ IF pdhRequire /\ qpfRequire /\ igclRequire
             THEN /\ tracker' = "constructed"
                  /\ m_msPeriod' = msPeriod
                  /\ m_pdhQuery' = env.pdhOpenOK
                  /\ m_timer' =
                       IF apis \cap {"IGCL", "LEVELZERO", "DXCORE"} # {}
                          /\ env.timerOK
                       THEN "timer" ELSE "null"
                  /\ m_freqHandlesL0' =
                       IF "LEVELZERO" \in apis THEN env.l0Domains ELSE {}
                  /\ m_ResultMask' =
                       IF "LEVELZERO" \in apis
                       THEN InitL0(mask1, apis, env.l0Domains) ELSE mask1
             ELSE /\ tracker' = "raised"
                  /\ UNCHANGED <<m_msPeriod, m_pdhQuery, m_timer,
                                 m_freqHandlesL0, m_ResultMask>>
          \* InitPDH runs first, then QueryPerformanceFrequency, then
          \* InitIGCL
          /\ required' = IF ~pdhRequire THEN "PdhAddCounterA"
                         ELSE IF ~qpfRequire THEN "QueryPerformanceFrequency"
                         ELSE IF ~igclRequire THEN "ctlEnumFrequencyDomains"
                         ELSE "none"
    /\ UNCHANGED <<timerSet, queued, cb, m_records, app, api>>
    /\ UNCHANGED <<ctorVars, orderVars, fnVars, yielded, ticks, usage, dtor>>

\* a start() that leaves a stopped tracker stopped
start_Once ==
    /\ tracker = "constructed"
    /\ app = "idle"
    /\ timerSet' = IF m_timer = "timer" /\ m_msPeriod # 0 /\ ~api.everStopped
                   THEN TRUE ELSE timerSet
    /\ api' = [api EXCEPT !.last = "start", !.stopped = FALSE]
    /\ UNCHANGED <<tracker, deviceAPIs, m_msPeriod, m_timer, m_pdhQuery,
                   m_freqHandlesL0, queued, cb, m_records, m_ResultMask, app>>
    /\ UNCHANGED <<ctorVars, orderVars, fnVars, yielded, ticks, required,
                   usage, dtor>>

\* TelemetryTracker::start
start ==
    /\ tracker = "constructed"
    /\ app = "idle"
    /\ timerSet' = IF m_timer = "timer" /\ m_msPeriod # 0
                   THEN TRUE ELSE timerSet
    /\ api' = [api EXCEPT !.last = "start", !.stopped = FALSE]
    /\ UNCHANGED <<tracker, deviceAPIs, m_msPeriod, m_timer, m_pdhQuery,
                   m_freqHandlesL0, queued, cb, m_records, m_ResultMask, app>>
    /\ UNCHANGED <<ctorVars, orderVars, fnVars, yielded, ticks, required,
                   usage, dtor>>

\* TelemetryTracker::stop
stop ==
    /\ tracker = "constructed"
    /\ app = "idle"
    /\ timerSet' = IF m_timer = "timer" THEN FALSE ELSE timerSet
    /\ api' = [last |-> "stop", stopped |-> TRUE, everStopped |-> TRUE]
    /\ UNCHANGED <<tracker, deviceAPIs, m_msPeriod, m_timer, m_pdhQuery,
                   m_freqHandlesL0, queued, cb, m_records, m_ResultMask, app>>
    /\ UNCHANGED <<ctorVars, orderVars, fnVars, yielded, ticks, required,
                   usage, dtor>>

\* the timer expires and the threadpool queues MyTimerCallback
timerFire ==
    /\ tracker = "constructed"
    /\ timerSet
    /\ queued < MaxQueued
    /\ Len(m_records) + queued + (IF cb = "recording" THEN 1 ELSE 0)
         < MaxRecords
    /\ queued' = queued + 1
    /\ UNCHANGED <<tracker, deviceAPIs, m_msPeriod, m_timer, m_pdhQuery,
                   m_freqHandlesL0, timerSet, cb, m_records, m_ResultMask,
                   app, api>>
    /\ UNCHANGED <<ctorVars, orderVars, fnVars, yielded, ticks, required,
                   usage, dtor>>

\* MyTimerCallback enters RecordNow and takes m_RecordMutex
MyTimerCallback ==
    /\ tracker = "constructed"
    /\ queued > 0
    /\ cb = "idle"
    /\ queued' = queued - 1
    /\ cb' = "recording"
    /\ UNCHANGED <<tracker, deviceAPIs, m_msPeriod, m_timer, m_pdhQuery,
                   m_freqHandlesL0, timerSet, m_records, m_ResultMask,
                   app, api>>
    /\ UNCHANGED <<ctorVars, orderVars, fnVars, yielded, ticks, required,
                   usage, dtor>>

\* what the sources answer on one tick
IGCLTelemetry ==
    {[ok |-> FALSE, items |-> {}],
     [ok |-> TRUE, items |-> {"FREQUENCY"}],
     [ok |-> TRUE,
      items |-> {"FREQUENCY", "READ_BW", "WRITE_BW", "GLOBAL_ACTIVITY",
                 "RENDER_COMPUTE_ACTIVITY", "MEDIA_ACTIVITY"}]}

Samples ==
    [perfInfoOK : BOOLEAN, currentUsage : {0, 512}, igcl : IGCLTelemetry,
     pdhOK : BOOLEAN, l0OK : BOOLEAN, nvmlClockOK : BOOLEAN,
     nvmlUtilOK : BOOLEAN, qpcOK : BOOLEAN]

\* TelemetryTracker::RecordMemoryUsage
RecordMemoryUsage(mask, s) ==
    [mask |-> mask
              \cup (IF s.perfInfoOK THEN {"SYSTEMMEMORY"} ELSE {})
              \cup (IF s.currentUsage # 0 THEN {"MEMORY_USAGE"} ELSE {}),
     ret |-> s.currentUsage # 0]

\* TelemetryTracker::RecordIGCL
RecordIGCL(mask, size, s) ==
    LET resultMask == mask \cup {"TIMESTAMP_DOUBLE"} \cup s.igcl.items
    IN [mask |-> IF s.igcl.ok /\ size = 0 THEN resultMask ELSE mask,
        ret |-> s.igcl.ok]

\* TelemetryTracker::RecordCPU_PDH
RecordCPU_PDH(pdhQuery, s) == pdhQuery /\ s.pdhOK

\* TelemetryTracker::RecordL0
RecordL0(apis, handles, s) ==
    /\ s.l0OK
    /\ \/ ("IGCL" \notin apis /\ "GPU" \in handles)
       \/ "MEDIA" \in handles

\* TelemetryTracker::RecordNVML
RecordNVML(mask, size, s) ==
    [mask |-> IF size = 0
              THEN mask
                   \cup (IF s.nvmlClockOK THEN {"FREQUENCY"} ELSE {})
                   \cup (IF s.nvmlUtilOK
                         THEN {"RENDER_COMPUTE_ACTIVITY", "GLOBAL_ACTIVITY"}
                         ELSE {})
              ELSE mask,
     ret |-> s.nvmlClockOK \/ s.nvmlUtilOK]

\* TelemetryTracker::RecordNow, with m_RecordMutex held, to its return
RecordNow(s) ==
    /\ tracker = "constructed"
    /\ cb = "recording"
    /\ LET size == Len(m_records)
           mem == IF "DXCORE" \in deviceAPIs
                  THEN RecordMemoryUsage(m_ResultMask, s)
                  ELSE [mask |-> m_ResultMask, ret |-> FALSE]
           igcl == IF "IGCL" \in deviceAPIs
                   THEN RecordIGCL(mem.mask, size, s)
                   ELSE [mask |-> mem.mask, ret |-> FALSE]
           pdh == RecordCPU_PDH(m_pdhQuery, s)
           l0 == "LEVELZERO" \in deviceAPIs
                 /\ RecordL0(deviceAPIs, m_freqHandlesL0, s)
           nvml == IF "NVML" \in deviceAPIs
                   THEN RecordNVML(igcl.mask, size, s)
                   ELSE [mask |-> igcl.mask, ret |-> FALSE]
           bUpdate == mem.ret \/ igcl.ret \/ pdh \/ l0 \/ nvml.ret
           \* some queried source has stored a value in rec
           wrote == \/ "DXCORE" \in deviceAPIs
                       /\ (s.perfInfoOK \/ s.currentUsage # 0)
                    \/ igcl.ret \/ pdh \/ l0 \/ nvml.ret
           rec == [deviceMemoryUsedBytes |->
                     IF mem.ret THEN s.currentUsage ELSE 0]
       IN /\ m_ResultMask' = nvml.mask
          /\ yielded' = IF wrote THEN "yes" ELSE "no"
          /\ ticks' = IF ticks < 2 THEN ticks + 1 ELSE ticks
          /\ IF bUpdate /\ "IGCL" \notin deviceAPIs /\ ~s.qpcOK
             THEN \* RecordCPUTimestamp's XPUINFO_REQUIRE throws on the
                  \* threadpool thread
                  /\ tracker' = "terminated"
                  /\ UNCHANGED m_records
             ELSE /\ m_records' = IF bUpdate THEN Append(m_records, rec)
                                  ELSE m_records
                  /\ UNCHANGED tracker
    /\ cb' = "idle"
    /\ UNCHANGED <<deviceAPIs, m_msPeriod, m_timer, m_pdhQuery,
                   m_freqHandlesL0, timerSet, queued, app, api>>
    /\ UNCHANGED <<ctorVars, orderVars, fnVars, required, usage, dtor>>

\* TelemetryTracker::getLog on the application thread: it walks m_records
\* without taking m_RecordMutex
getLog ==
    /\ tracker = "constructed"
    /\ app = "idle"
    /\ app' = "getLog"
    /\ api' = [api EXCEPT !.last = "getLog"]
    /\ UNCHANGED <<tracker, deviceAPIs, m_msPeriod, m_timer, m_pdhQuery,
                   m_freqHandlesL0, timerSet, queued, cb, m_records,
                   m_ResultMask>>
    /\ UNCHANGED <<ctorVars, orderVars, fnVars, yielded, ticks, required,
                   usage, dtor>>

getLogReturn ==
    /\ tracker = "constructed"
    /\ app = "getLog"
    /\ app' = "idle"
    /\ UNCHANGED <<tracker, deviceAPIs, m_msPeriod, m_timer, m_pdhQuery,
                   m_freqHandlesL0, timerSet, queued, cb, m_records,
                   m_ResultMask, api>>
    /\ UNCHANGED <<ctorVars, orderVars, fnVars, yielded, ticks, required,
                   usage, dtor>>

InitTelemetry == InitCtor({{}}, FALSE) /\ orderIdle /\ telIdle /\ fnIdle

NextTelemetry ==
    \/ \E apis \in TrackedAPIs, msPeriod \in Periods, env \in CtorEnvs :
          TelemetryTrackerCtor(apis, msPeriod, env)
    \/ start
    \/ stop
    \/ timerFire
    \/ MyTimerCallback
    \/ \E s \in Samples : RecordNow(s)
    \/ getLog
    \/ getLogReturn

SpecTelemetry == InitTelemetry /\ [][NextTelemetry]_vars

(***************************************************************************)
(* Properties of the TelemetryTracker.                                     *)
(***************************************************************************)
\* C8 as stated: once stop() has been called the timer is never set again,
\* whatever calls follow.
C8_NoRunningAfterStop == api.everStopped => ~timerSet

\* C8 amended: a start() that follows a stop() sets the timer again exactly
\* when the timer exists and the period is not zero, so the tracker is
\* back in Running and callbacks are queued again.
C8_StartAfterStopRearms ==
    [][(api.last = "stop" /\ api'.last = "start")
        => timerSet' = (m_timer = "timer" /\ m_msPeriod # 0)]_vars

\* start() after stop() has set the timer and a callback is queued again
C8_Witness ==
    /\ api.everStopped
    /\ api.last = "start"
    /\ timerSet
    /\ queued > 0

\* C9: from the return of stop() until the next start(), no callback is
\* inside RecordNow, so no getLog() overlaps an append.
C9_StopIsBarrier == api.stopped => cb = "idle"

\* C10: once m_records holds a record, no step changes m_ResultMask.
C10_MaskCapturedOnce ==
    [][m_records # <<>> => m_ResultMask' = m_ResultMask]_vars

\* the step is one whole run of RecordNow, to its return
RecordNowStep ==
    cb = "recording" /\ cb' = "idle" /\ tracker' = "constructed"

\* C11: a tick appends exactly one record when a queried source stored a
\* value and none otherwise, and leaves the records already held as they
\* were.
C11_OneRecordPerYieldingTick ==
    [][RecordNowStep =>
        /\ Len(m_records') =
             Len(m_records) + (IF yielded' = "yes" THEN 1 ELSE 0)
        /\ SubSeq(m_records', 1, Len(m_records)) = m_records]_vars

(***************************************************************************)
(* DeviceDriverVersion (LibXPUInfo.h, LibXPUInfo.cpp).  mRawVersion is a   *)
(* 64-bit integer; it is written here as its four 16-bit words, highest    *)
(* first, so that `(mRawVersion & mask) >> shift` is the choice of one     *)
(* word.                                                                   *)
(***************************************************************************)
kReleaseNumber_Ignore == 65535

\* DeviceDriverVersion(uint64_t inRawVersion)
DeviceDriverVersionRaw(inRawVersion) ==
    [mRawVersion |-> inRawVersion, mValid |-> TRUE]

\* DeviceDriverVersion(LUID) when the registry holds no version for the LUID
DeviceDriverVersionNotFound ==
    [mRawVersion |-> <<0, 0, 0, 0>>, mValid |-> FALSE]

\* CompareGE with the release words compared by > only
CompareGE_Strict(self, rhs) ==
    LET last4gt == self.mRawVersion[4] > rhs.mRawVersion[4]
        curRelease == self.mRawVersion[3]
        inReleaseField == rhs.mRawVersion[3]
    IN  (curRelease > inReleaseField)
            \/ ((curRelease >= inReleaseField) /\ last4gt)

\* CompareGE over all four words
CompareGE_AllWords(self, rhs) ==
    LET a == self.mRawVersion
        b == rhs.mRawVersion
    IN  \/ a[1] > b[1]
        \/ a[1] = b[1] /\ a[2] > b[2]
        \/ a[1] = b[1] /\ a[2] = b[2] /\ a[3] > b[3]
        \/ a[1] = b[1] /\ a[2] = b[2] /\ a[3] = b[3] /\ a[4] >= b[4]

CompareGE(self, rhs) ==
    LET inBuildNumberLast4Digits == rhs.mRawVersion[4]
        last4ge == self.mRawVersion[4] >= inBuildNumberLast4Digits
        curRelease == self.mRawVersion[3]
        inReleaseField == rhs.mRawVersion[3]
    IN  (curRelease > inReleaseField)
            \/ ((curRelease >= inReleaseField) /\ last4ge)

\* AtLeast without the branch on kReleaseNumber_Ignore
AtLeast_NoIgnore(self, inBuildNumberLast4Digits, inReleaseField) ==
    LET last4ge == self.mRawVersion[4] >= inBuildNumberLast4Digits
        curRelease == self.mRawVersion[3]
    IN  (curRelease > inReleaseField)
            \/ ((curRelease >= inReleaseField) /\ last4ge)

AtLeast(self, inBuildNumberLast4Digits, inReleaseField) ==
    LET last4ge == self.mRawVersion[4] >= inBuildNumberLast4Digits
        curRelease == self.mRawVersion[3]
    IN  IF inReleaseField = kReleaseNumber_Ignore
        THEN (curRelease > 100) \/ last4ge
        ELSE (curRelease > inReleaseField)
                \/ ((curRelease >= inReleaseField) /\ last4ge)

\* what a call gives back: "fatal" when XPUINFO_REQUIRE called the handler
Returned(b) == IF b THEN "true" ELSE "false"

\* InRange with both ends excluded
InRange_Strict(self, r) ==
    IF ~self.mValid \/ ~r[1].mValid \/ ~r[2].mValid
    THEN "fatal"
    ELSE Returned(/\ CompareGE(self, r[1]) /\ ~CompareGE(r[1], self)
                  /\ CompareGE(r[2], self) /\ ~CompareGE(self, r[2]))

InRange(self, r) ==
    IF ~self.mValid \/ ~r[1].mValid \/ ~r[2].mValid
    THEN "fatal"
    ELSE Returned(CompareGE(self, r[1]) /\ CompareGE(r[2], self))

\* the versions the client constructs
TopWords == {<<0, 0>>, <<31, 0>>}
ReleaseWords == {0, 100, 101, 65535}
BuildWords == {0, 1, 65535}

Versions ==
    {DeviceDriverVersionRaw(<<t[1], t[2], r, b>>) :
        t \in TopWords, r \in ReleaseWords, b \in BuildWords}
    \cup {DeviceDriverVersionNotFound}

callCompareGE ==
    /\ verCall' = [op |-> "CompareGE", build |-> 0, release |-> 0,
                   ret |-> Returned(CompareGE(version, range[1]))]
    /\ UNCHANGED <<ctorVars, orderVars, telVars, version, range, genVars, jsonVars,
                   strVars>>

callAtLeast ==
    /\ \E b \in BuildWords, r \in ReleaseWords :
          verCall' = [op |-> "AtLeast", build |-> b, release |-> r,
                      ret |-> Returned(AtLeast(version, b, r))]
    /\ UNCHANGED <<ctorVars, orderVars, telVars, version, range, genVars, jsonVars,
                   strVars>>

callInRange ==
    /\ verCall' = [op |-> "InRange", build |-> 0, release |-> 0,
                   ret |-> InRange(version, range)]
    /\ UNCHANGED <<ctorVars, orderVars, telVars, version, range, genVars, jsonVars,
                   strVars>>

InitVersion ==
    /\ InitCtor({{}}, FALSE)
    /\ orderIdle
    /\ telIdle
    /\ version \in Versions
    /\ range \in Versions \X Versions
    /\ verCall = [op |-> "none", build |-> 0, release |-> 0, ret |-> "none"]
    /\ genIdle
    /\ jsonIdle
    /\ strIdle

NextVersion == callCompareGE \/ callAtLeast \/ callInRange

SpecVersion == InitVersion /\ [][NextVersion]_vars

\* a version or an operand of the latest call is invalid
InvalidOperand ==
    \/ ~version.mValid
    \/ verCall.op \in {"CompareGE", "InRange"} /\ ~range[1].mValid
    \/ verCall.op = "InRange" /\ ~range[2].mValid

\* C14: a comparison with an invalid receiver or operand calls the error
\* handler and gives no boolean.
C14_InvalidOperandIsFatal ==
    (verCall.op # "none" /\ InvalidOperand) => verCall.ret = "fatal"

\* C15 as stated: InRange is true exactly when the receiver is strictly
\* above the low bound and strictly below the high bound.
C15_InRangeExcludesBounds ==
    (verCall.op = "InRange" /\ ~InvalidOperand) =>
        (verCall.ret = "true" <=>
            /\ ~CompareGE(range[1], version) /\ CompareGE(version, range[1])
            /\ ~CompareGE(version, range[2]) /\ CompareGE(range[2], version))

\* C15: InRange is fatal when the receiver or a bound is invalid, and
\* otherwise true exactly when self.CompareGE(low) and high.CompareGE(self)
\* are both true, the bounds themselves included.
C15_InRangeIncludesBounds ==
    verCall.op = "InRange" =>
        IF InvalidOperand
        THEN verCall.ret = "fatal"
        ELSE verCall.ret = Returned(/\ CompareGE(version, range[1])
                                    /\ CompareGE(range[2], version))

C15_Witness ==
    /\ verCall.op = "InRange"
    /\ ~InvalidOperand
    /\ version = range[1]
    /\ range[2] # version
    /\ verCall.ret = "true"

\* C16: for every valid version v, v.InRange(v, v) is true.
C16_InRangeReflexive ==
    (verCall.op = "InRange" /\ version.mValid /\ range = <<version, version>>)
        => verCall.ret = "true"

C16_Witness ==
    /\ verCall.op = "InRange"
    /\ version.mValid
    /\ range = <<version, version>>
    /\ version.mRawVersion[3] = 101
    /\ verCall.ret = "true"

\* a version with its top two words replaced
WithTopWords(v, t) ==
    [v EXCEPT !.mRawVersion = <<t[1], t[2], v.mRawVersion[3], v.mRawVersion[4]>>]

\* C17: for valid a and b, a.CompareGE(b) is true exactly when
\* release(a) > release(b), or the releases are equal and
\* build(a) >= build(b); the top two words of a and of b do not matter.
C17_CompareGEReleaseThenBuild ==
    (verCall.op = "CompareGE" /\ ~InvalidOperand) =>
        LET a == version.mRawVersion
            b == range[1].mRawVersion
        IN  /\ verCall.ret =
                 Returned(a[3] > b[3] \/ (a[3] = b[3] /\ a[4] >= b[4]))
            /\ \A t, u \in TopWords :
                  CompareGE(WithTopWords(version, t),
                            WithTopWords(range[1], u))
                      = CompareGE(version, range[1])

C17_Witness ==
    /\ verCall.op = "CompareGE"
    /\ ~InvalidOperand
    /\ version.mRawVersion[1] < range[1].mRawVersion[1]
    /\ version.mRawVersion[3] = range[1].mRawVersion[3]
    /\ version.mRawVersion[4] > range[1].mRawVersion[4]
    /\ verCall.ret = "true"

\* C18: AtLeast(buildFloor, releaseFloor) answers as CompareGE against
\* (releaseFloor, buildFloor), except that with the ignore sentinel a release
\* word above 100 passes whatever the build word and a release word of 100
\* or less passes exactly when the build word is >= buildFloor.
C18_AtLeastAsCompareGE ==
    verCall.op = "AtLeast" =>
        verCall.ret = Returned(
            IF verCall.release = kReleaseNumber_Ignore
            THEN IF version.mRawVersion[3] > 100
                 THEN TRUE
                 ELSE version.mRawVersion[4] >= verCall.build
            ELSE CompareGE(version,
                     DeviceDriverVersionRaw(
                         <<0, 0, verCall.release, verCall.build>>)))

C18_Witness ==
    /\ verCall.op = "AtLeast"
    /\ verCall.release = kReleaseNumber_Ignore
    /\ version.mRawVersion[3] = 101
    /\ version.mRawVersion[4] < verCall.build
    /\ verCall.ret = "true"

(***************************************************************************)
(* DeviceProperties::getDeviceGenerationName and its table.  gen is a UI32 *)
(* in the code and is compared with (UI32)DeviceGenerationID; both are     *)
(* written here as the I32 with the same bits.  infName "" is nullptr.     *)
(***************************************************************************)
S_GenNameMap ==
    << [gen |-> 14, name |-> "Haswell", infName |-> "", ipVersion |-> 0],
       [gen |-> 16, name |-> "Broadwell", infName |-> "", ipVersion |-> 0],
       [gen |-> 18, name |-> "Sky Lake", infName |-> "", ipVersion |-> 0],
       [gen |-> 19, name |-> "Kaby Lake", infName |-> "", ipVersion |-> 0],
       [gen |-> 20, name |-> "Coffee Lake", infName |-> "", ipVersion |-> 0],
       [gen |-> 29, name |-> "Ice Lake", infName |-> "", ipVersion |-> 0],
       [gen |-> 33, name |-> "Tiger Lake", infName |-> "iTGLD", ipVersion |-> 50331648],
       [gen |-> 35, name |-> "Rocket Lake", infName |-> "iRKLD", ipVersion |-> 50348032],
       [gen |-> 36, name |-> "Raptor Lake S", infName |-> "iRPLSD", ipVersion |-> 50364416],
       [gen |-> 36, name |-> "Alder Lake S", infName |-> "iADLSD", ipVersion |-> 50364416],
       [gen |-> 37, name |-> "Raptor Lake P", infName |-> "iRPLPD", ipVersion |-> 50364416],
       [gen |-> 37, name |-> "Alder Lake P", infName |-> "iADLPD", ipVersion |-> 50364416],
       [gen |-> 1210, name |-> "DG1", infName |-> "", ipVersion |-> 0],
       [gen |-> 1270, name |-> "DG2", infName |-> "iDG2D", ipVersion |-> 51232776],
       [gen |-> 1272, name |-> "Meteor Lake", infName |-> "iMTL", ipVersion |-> 51494916],
       [gen |-> 1272, name |-> "Meteor Lake", infName |-> "MTL_IAG", ipVersion |-> 51494916],
       [gen |-> 1273, name |-> "Arrow Lake", infName |-> "iARL", ipVersion |-> 51478532],
       [gen |-> 1274, name |-> "Battlemage", infName |-> "BMG_", ipVersion |-> 83902464],
       [gen |-> 1275, name |-> "Lunar Lake", infName |-> "iLNL", ipVersion |-> 83951617],
       [gen |-> 1275, name |-> "Lunar Lake", infName |-> "LNL_", ipVersion |-> 83951617],
       [gen |-> 1275, name |-> "Lunar Lake", infName |-> "LNL_", ipVersion |-> 83951620],
       [gen |-> 1300, name |-> "Panther Lake", infName |-> "PTL_", ipVersion |-> 125829124],
       [gen |-> 0 - 2147483647 - 1, name |-> "NPU2.7", infName |-> "mtl_w", ipVersion |-> 0],
       [gen |-> 0 - 2147483647 - 1, name |-> "NPU2.7", infName |-> "NPU2_7", ipVersion |-> 0],
       [gen |-> 0 - 2147483646, name |-> "NPU4", infName |-> "NPU4", ipVersion |-> 0],
       [gen |-> 0 - 2147483645, name |-> "NPU5", infName |-> "NPU5", ipVersion |-> 0] >>

S_numGenNames == Len(S_GenNameMap)

\* std::unordered_map S_nVArchNames
S_nVArchNames ==
    [k \in 2..11 |->
        CASE k = 2 -> "Kepler" [] k = 3 -> "Maxwell" [] k = 4 -> "Pascal"
          [] k = 5 -> "Volta" [] k = 6 -> "Turing" [] k = 7 -> "Ampere"
          [] k = 8 -> "Ada" [] k = 9 -> "Hopper" [] k = 10 -> "Blackwell"
          [] k = 11 -> "Orin"]

\* for (int i = 0; i < S_numGenNames; ++i) over gen
RECURSIVE ScanGenUp(_, _)
ScanGenUp(i, id) ==
    IF i > S_numGenNames THEN "nullptr"
    ELSE IF S_GenNameMap[i].gen = id THEN S_GenNameMap[i].name
    ELSE ScanGenUp(i + 1, id)

\* for (int i = 0; i < S_numGenNames; ++i) over ipVersion
RECURSIVE ScanIPVersionUp(_, _)
ScanIPVersionUp(i, id) ==
    IF i > S_numGenNames THEN "nullptr"
    ELSE IF S_GenNameMap[i].ipVersion = id THEN S_GenNameMap[i].name
    ELSE ScanIPVersionUp(i + 1, id)

\* for (int i = S_numGenNames-1; i >= 0; --i) over gen
RECURSIVE ScanGen(_, _)
ScanGen(i, id) ==
    IF i < 1 THEN "nullptr"
    ELSE IF S_GenNameMap[i].gen = id THEN S_GenNameMap[i].name
    ELSE ScanGen(i - 1, id)

\* for (int i = S_numGenNames-1; i >= 0; --i) over ipvu.ipVersion
RECURSIVE ScanIPVersion(_, _)
ScanIPVersion(i, id) ==
    IF i < 1 THEN "nullptr"
    ELSE IF S_GenNameMap[i].ipVersion = id THEN S_GenNameMap[i].name
    ELSE ScanIPVersion(i - 1, id)

\* a lookup that scans the table from its first row
getDeviceGenerationName_FirstMatch(props) ==
    IF props.DeviceGenerationAPI \in {"DX11_INTEL_PERF_COUNTER", "SETUPAPI"}
    THEN ScanGenUp(1, props.DeviceGenerationID)
    ELSE IF props.DeviceGenerationAPI \in {"OPENCL", "LEVELZERO"}
    THEN ScanIPVersionUp(1, props.DeviceGenerationID)
    ELSE IF props.DeviceGenerationAPI = "NVML"
    THEN (IF props.DeviceGenerationID \in DOMAIN S_nVArchNames
          THEN S_nVArchNames[props.DeviceGenerationID] ELSE "nullptr")
    ELSE "nullptr"

getDeviceGenerationName(props) ==
    IF props.DeviceGenerationAPI \in {"DX11_INTEL_PERF_COUNTER", "SETUPAPI"}
    THEN ScanGen(S_numGenNames, props.DeviceGenerationID)
    ELSE IF props.DeviceGenerationAPI \in {"OPENCL", "LEVELZERO"}
    THEN ScanIPVersion(S_numGenNames, props.DeviceGenerationID)
    ELSE IF props.DeviceGenerationAPI = "NVML"
    THEN (IF props.DeviceGenerationID \in DOMAIN S_nVArchNames
          THEN S_nVArchNames[props.DeviceGenerationID] ELSE "nullptr")
    ELSE "nullptr"

\* the values a probe may have left in DeviceGenerationAPI / DeviceGenerationID
GenerationAPIs ==
    {"UNKNOWN", "DX11_INTEL_PERF_COUNTER", "SETUPAPI", "OPENCL", "LEVELZERO",
     "NVML"}

GenerationIDs ==
    {S_GenNameMap[i].gen : i \in 1..S_numGenNames}
    \cup {S_GenNameMap[i].ipVersion : i \in 1..S_numGenNames}
    \cup {0 - 1, 2, 11, 12}

callGetDeviceGenerationName ==
    /\ genName' = getDeviceGenerationName(genProps)
    /\ UNCHANGED <<ctorVars, orderVars, telVars, verVars, genProps, jsonVars,
                   strVars>>

InitGeneration ==
    /\ InitCtor({{}}, FALSE)
    /\ orderIdle
    /\ telIdle
    /\ verIdle
    /\ jsonIdle
    /\ strIdle
    /\ genProps \in [DeviceGenerationAPI : GenerationAPIs,
                     DeviceGenerationID : GenerationIDs]
    /\ genName = "none"

NextGeneration == callGetDeviceGenerationName

SpecGeneration == InitGeneration /\ [][NextGeneration]_vars

\* the rows that match the Device's identifier in the space its API uses
MatchingRows(props) ==
    IF props.DeviceGenerationAPI \in {"DX11_INTEL_PERF_COUNTER", "SETUPAPI"}
    THEN {i \in 1..S_numGenNames :
             S_GenNameMap[i].gen = props.DeviceGenerationID}
    ELSE IF props.DeviceGenerationAPI \in {"OPENCL", "LEVELZERO"}
    THEN {i \in 1..S_numGenNames :
             S_GenNameMap[i].ipVersion = props.DeviceGenerationID}
    ELSE {}

\* C19: when the identifier matches more than one row of the table, the
\* lookup returns the name of the matching row with the highest index.
C19_LastMatchWins ==
    (genName # "none" /\ Cardinality(MatchingRows(genProps)) > 1) =>
        LET last_ == CHOOSE i \in MatchingRows(genProps) :
                        \A j \in MatchingRows(genProps) : j <= i
        IN  genName = S_GenNameMap[last_].name

C19_Witness ==
    /\ genProps = [DeviceGenerationAPI |-> "SETUPAPI",
                   DeviceGenerationID |-> 36]
    /\ genName = "Alder Lake S"

(***************************************************************************)
(* XPUInfo::finalInitDXGI over the registries the probes may have left:    *)
(* one or two Devices, any memory sizes around the two thresholds, any     *)
(* classification.                                                         *)
(***************************************************************************)
FinalDedicated == {128, 256, 257, 2047, 2048, 4096}
FinalShared == {2047, 2048, 8192}
UMATypes == {UMA_UNKNOWN, UMA_INTEGRATED, NONUMA_DISCRETE}

FinalDevice(l, ded, sh, uma) ==
    [DeviceCtor(l - 1,
                [luid |-> l, VendorId |-> kVendorId_Intel,
                 Description |-> IntelName, DedicatedVideoMemory |-> ded,
                 SharedSystemMemory |-> sh, driverVersionValid |-> TRUE],
                DEVICE_TYPE_GPU, "DXGI")
        EXCEPT !.UMA = uma]

FinalRegistries ==
    LET first == {FinalDevice(1, ded, sh, uma) :
                     ded \in FinalDedicated, sh \in FinalShared,
                     uma \in UMATypes}
        second == {FinalDevice(2, ded, 8192, uma) :
                      ded \in {128, 4096}, uma \in UMATypes}
    IN  {{[key |-> 1, dev |-> d]} : d \in first}
        \cup {{[key |-> 1, dev |-> d], [key |-> 2, dev |-> e]} :
                 d \in first, e \in second}

InitFinal ==
    /\ pc = "final"
    /\ initMask \in {{"DXGI"}, {"DXGI", "DXCORE"}, {"DXCORE"}}
    /\ m_Devices \in FinalRegistries
    /\ m_UsedAPIs = initMask
    /\ iter = 0
    /\ wmiThread = "none"
    /\ wmiLocal = {}
    /\ handlerCalls = 0
    /\ log = {}
    /\ last = [track |-> FALSE, probe |-> "none", r |-> <<>>, n |-> 0]
    /\ orderIdle
    /\ telIdle
    /\ fnIdle

NextFinal ==
    \/ ctorFinalInitDXGI
    \/ \E memInfoOK \in BOOLEAN : ctorJoin(memInfoOK)

SpecFinal == InitFinal /\ [][NextFinal]_vars

\* the step is the constructor's call of finalInitDXGI
FinalizeStep == pc = "final" /\ pc' = "join" /\ "DXGI" \in initMask

\* what the memory sizes of a Device say about its architecture
GuessUMA(d) ==
    IF d.DedicatedVideoMemory <= 256 /\ d.SharedSystemMemory >= 2048
    THEN UMA_INTEGRATED
    ELSE IF d.DedicatedVideoMemory >= 2048 THEN NONUMA_DISCRETE
    ELSE UMA_UNKNOWN

\* C20: finalize leaves every Device whose classification is set as it was,
\* and gives an unset one integrated when dedicated <= 256 MB and
\* shared >= 2 GB, discrete when dedicated >= 2 GB, unknown otherwise; it
\* changes nothing else.
C20_FinalizeOnlyUnset ==
    [][FinalizeStep =>
        /\ MapKeys(m_Devices') = MapKeys(m_Devices)
        /\ \A e \in m_Devices :
              LET after == MapAt(m_Devices', e.key)
              IN  /\ after = [e.dev EXCEPT !.UMA = after.UMA]
                  /\ after.UMA = IF e.dev.UMA = UMA_UNKNOWN
                                 THEN GuessUMA(e.dev)
                                 ELSE e.dev.UMA]_vars

\* after finalize: one Device left unknown between the thresholds, beside one
\* whose discrete classification stands although its sizes say integrated
C20_Witness ==
    /\ pc = "join"
    /\ "DXGI" \in initMask
    /\ \E e \in m_Devices :
          /\ e.dev.UMA = UMA_UNKNOWN
          /\ e.dev.DedicatedVideoMemory = 257
    /\ \E e \in m_Devices :
          /\ e.dev.UMA = NONUMA_DISCRETE
          /\ e.dev.DedicatedVideoMemory = 128

(***************************************************************************)
(* LibXPUInfo_JSON.cpp: the snapshot of a constructed registry, written by *)
(* XPUInfo::serialize and read back by XPUInfo::deserialize, and           *)
(* JSON::compareXI of the two.  A JSON object is [has, val]: has is the    *)
(* set of members present, val their values.  Of a Device's members the    *)
(* ones kept are those of the registry above, with GenerationAPI.  An      *)
(* APIType is a UI32 bitmask in the document.                              *)
(***************************************************************************)
\* fields one snapshot document may lack
MaxMissing == 1

\* enum APIType
APIBit(a) ==
    CASE a = "DXGI" -> 1 [] a = "DX11_INTEL_PERF_COUNTER" -> 2
      [] a = "IGCL" -> 4 [] a = "OPENCL" -> 8 [] a = "LEVELZERO" -> 16
      [] a = "SETUPAPI" -> 32 [] a = "DXCORE" -> 64 [] a = "NVML" -> 128
      [] a = "METAL" -> 256 [] a = "WMI" -> 512 [] a = "DESERIALIZED" -> 1024
      [] a = "IGCL_L0" -> 2048

APINames ==
    {"DXGI", "DX11_INTEL_PERF_COUNTER", "IGCL", "OPENCL", "LEVELZERO",
     "SETUPAPI", "DXCORE", "NVML", "METAL", "WMI", "DESERIALIZED", "IGCL_L0"}

\* (UI32)apis
RECURSIVE APIsToUI32(_)
APIsToUI32(apis) ==
    IF apis = {} THEN 0
    ELSE LET a == CHOOSE x \in apis : TRUE
         IN APIBit(a) + APIsToUI32(apis \ {a})

\* (APIType)n
UI32ToAPIs(n) == {a \in APINames : (n \div APIBit(a)) % 2 = 1}

\* DeviceGenerationAPI of a registered Device: of the probes that build the
\* registries written here only initDXIntelPerfCounter sets it, where it
\* adds its API to validAPIs
DeviceGenerationAPI(d) ==
    IF "DX11_INTEL_PERF_COUNTER" \in d.validAPIs THEN 2 ELSE 0

\* driverVersion().GetAsUI64(), as 1 for a valid version and 0 for an invalid
DriverVersionRaw(d) == IF d.driverVersionValid THEN 1 ELSE 0

DeviceMembers ==
    {"Name", "AdapterIndex", "DriverVersionRaw", "DriverInfo", "Type",
     "FreqMaxMHz", "dxgiDesc", "GenerationAPI", "ComputeUnits", "validAPIs",
     "UMA", "PCIAddress", "PCIDeviceGen", "PCIDeviceWidth", "PCICurrentGen",
     "PCICurrentWidth", "cudaComputeCapability_Major", "IsHighPerformance",
     "IsDetachable"}

\* serializeDesc
serializeDesc(d) ==
    [VendorID |-> d.VendorId,
     DedicatedVideoMemory |-> d.DedicatedVideoMemory,
     SharedSystemMemory |-> d.SharedSystemMemory,
     AdapterLuid |-> d.AdapterLuid]

\* Device::serialize
DeviceSerialize(d) ==
    [has |-> DeviceMembers
               \ ((IF d.pDriverInfo = 0 THEN {"DriverInfo"} ELSE {})
                  \cup (IF d.VendorId = kVendorId_nVidia THEN {}
                        ELSE {"cudaComputeCapability_Major"})),
     val |-> [Name |-> d.Description,
              AdapterIndex |-> d.m_adapterIndex,
              DriverVersionRaw |-> DriverVersionRaw(d),
              DriverInfo |-> d.pDriverInfo,
              Type |-> d.m_type,
              FreqMaxMHz |-> d.FreqMaxMHz,
              dxgiDesc |-> serializeDesc(d),
              GenerationAPI |-> DeviceGenerationAPI(d),
              ComputeUnits |-> d.NumComputeUnits,
              validAPIs |-> APIsToUI32(d.validAPIs),
              UMA |-> d.UMA,
              PCIAddress |-> d.PCIAddress,
              PCIDeviceGen |-> d.PCIDeviceGen,
              PCIDeviceWidth |-> d.PCIDeviceWidth,
              PCICurrentGen |-> d.PCICurrentGen,
              PCICurrentWidth |-> d.PCICurrentWidth,
              cudaComputeCapability_Major |-> d.cudaComputeCapability,
              IsHighPerformance |-> d.IsHighPerformance,
              IsDetachable |-> d.IsDetachable]]

\* the version tag of the documents this library writes
XPUINFO_JSON_VERSION == "0.0.1"

\* XPUInfo::serialize: the Version member, then the Devices in std::map order
XPUInfoSerialize(usedAPIs, m) ==
    LET ks == MapOrder(m)
    IN  [has |-> {"Version"},
         Version |-> XPUINFO_JSON_VERSION,
         UsedAPIsUI32 |-> APIsToUI32(usedAPIs),
         Devices |-> [i \in 1..Len(ks) |-> DeviceSerialize(MapAt(m, ks[i]))]]

\* std::optional
nullopt == [has_value |-> FALSE, value |-> 0]
value_or(o, other) == IF o.has_value THEN o.value ELSE other

\* safeGetUI32, safeGetUI64: the member is present and IsUint
safeGetUI32(e, valName) ==
    IF valName \in e.has /\ e.val[valName] >= 0
    THEN [has_value |-> TRUE, value |-> e.val[valName]]
    ELSE nullopt

\* safeGetI32: the member is present and IsInt
safeGetI32(e, valName) ==
    IF valName \in e.has
    THEN [has_value |-> TRUE, value |-> e.val[valName]]
    ELSE nullopt

\* wcsncpy(dst, src, n) into a zeroed buffer
wcsncpy(src, n) == IF Len(src) > n THEN SubSeq(src, 1, n) ELSE src

\* Device::deserialize.  nullName is what std::string(nullptr) does in
\* XI::convert when the entry has dxgiDesc and no Name: "throws", or "empty"
\* for a build that goes on with an empty string.
DeviceDeserialize(e, nullName, regHit) ==
    LET index == safeGetUI32(e, "AdapterIndex")
        type == safeGetUI32(e, "Type")
        apis == safeGetUI32(e, "validAPIs")
        rawDriverVersion == safeGetUI32(e, "DriverVersionRaw")
        hasDesc == "dxgiDesc" \in e.has
        name == IF "Name" \in e.has THEN e.val.Name ELSE <<>>
        desc == [luid |-> e.val.dxgiDesc.AdapterLuid,
                 VendorId |-> e.val.dxgiDesc.VendorID,
                 Description |-> wcsncpy(name, 128),
                 DedicatedVideoMemory |-> e.val.dxgiDesc.DedicatedVideoMemory,
                 SharedSystemMemory |-> e.val.dxgiDesc.SharedSystemMemory,
                 driverVersionValid |->
                     IF rawDriverVersion.value # 0 THEN TRUE ELSE regHit]
        newDev == DeviceCtor(index.value, desc, type.value, "DESERIALIZED")
    IN  IF hasDesc /\ "Name" \notin e.has /\ nullName = "throws"
        THEN [status |-> "crashed", dev |-> DeviceCtor(0, desc, 0, "none"),
              gen |-> 0]
        ELSE IF ~(index.has_value /\ hasDesc /\ type.has_value
                  /\ apis.has_value /\ rawDriverVersion.has_value)
        THEN [status |-> "nullptr", dev |-> DeviceCtor(0, desc, 0, "none"),
              gen |-> 0]
        ELSE [status |-> "ok",
              dev |-> [newDev EXCEPT
                  !.validAPIs = UI32ToAPIs(apis.value) \cup {"DESERIALIZED"},
                  !.pDriverInfo = IF "DriverInfo" \in e.has
                                  THEN e.val.DriverInfo ELSE @,
                  !.FreqMaxMHz = value_or(safeGetI32(e, "FreqMaxMHz"), 0 - 1),
                  !.NumComputeUnits =
                      value_or(safeGetI32(e, "ComputeUnits"), 0 - 1),
                  !.UMA = value_or(safeGetUI32(e, "UMA"), 0),
                  !.PCIAddress = IF "PCIAddress" \in e.has
                                 THEN e.val.PCIAddress ELSE @,
                  !.PCICurrentGen =
                      value_or(safeGetI32(e, "PCICurrentGen"), 0 - 1),
                  !.PCICurrentWidth =
                      value_or(safeGetI32(e, "PCICurrentWidth"), 0 - 1),
                  !.PCIDeviceGen =
                      value_or(safeGetI32(e, "PCIDeviceGen"), 0 - 1),
                  !.PCIDeviceWidth =
                      value_or(safeGetI32(e, "PCIDeviceWidth"), 0 - 1),
                  !.cudaComputeCapability =
                      IF desc.VendorId = kVendorId_nVidia
                      THEN value_or(
                              safeGetI32(e, "cudaComputeCapability_Major"),
                              0 - 1)
                      ELSE @],
              \* APIType(safeGetUI32(val, "GenerationAPI").value_or(-1))
              gen |-> value_or(safeGetUI32(e, "GenerationAPI"), 0 - 1)]

\* XPUInfo::deserialize, the loop over Devices: the registry built from the
\* first n entries, or the failure met among them
RECURSIVE DeserializeDevices(_, _, _, _)
DeserializeDevices(entries, n, nullName, regHit) ==
    IF n = 0 THEN [status |-> "ok", m_Devices |-> {}]
    ELSE LET before == DeserializeDevices(entries, n - 1, nullName, regHit)
             devPtr == DeviceDeserialize(entries[n], nullName, regHit)
             k == getLUID(devPtr.dev)
         IN  IF before.status # "ok" THEN before
             ELSE IF devPtr.status # "ok"
             THEN [status |-> devPtr.status, m_Devices |-> before.m_Devices]
             ELSE [status |-> "ok",
                   m_Devices |->
                       IF k \in MapKeys(before.m_Devices)
                       THEN before.m_Devices
                       ELSE before.m_Devices \cup
                              {[key |-> k, dev |-> devPtr.dev,
                                gen |-> devPtr.gen]}]

\* XPUInfo::deserialize with the Version member required to be this
\* library's, as an enforcing reader would
XPUInfoDeserialize_Enforcing(val, nullName, regHit) ==
    LET devs == DeserializeDevices(val.Devices, Len(val.Devices),
                                   nullName, regHit)
    IN  IF "Version" \notin val.has THEN
            [status |-> "assert", m_UsedAPIs |-> {}, m_Devices |-> {}]
        ELSE IF val.Version # XPUINFO_JSON_VERSION THEN
            [status |-> "nullptr", m_UsedAPIs |-> {}, m_Devices |-> {}]
        ELSE [status |-> devs.status,
              m_UsedAPIs |-> UI32ToAPIs(val.UsedAPIsUI32),
              m_Devices |-> devs.m_Devices]

\* XPUInfo::deserialize: UsedAPIsUI32 and the Devices are read, the Version
\* member is not
XPUInfoDeserialize(val, nullName, regHit) ==
    LET devs == DeserializeDevices(val.Devices, Len(val.Devices),
                                   nullName, regHit)
    IN  [status |-> devs.status,
         m_UsedAPIs |-> UI32ToAPIs(val.UsedAPIsUI32),
         m_Devices |-> devs.m_Devices]

\* the version tags of other writers
OtherVersions == {"0.0.2"}

\* XPUInfo::getDeviceByIndex: the first entry in map order with the index
getDeviceByIndex(m, inIndex) ==
    FirstMatch(m, {e.key : e \in {x \in m : x.dev.m_adapterIndex = inIndex}})

\* Device::operator== with DeviceProperties::operator== and the operator==
\* of DXGI_ADAPTER_DESC1: l of the registry, r an entry of the one read back
DeviceEquals(l, r) ==
    /\ l.m_type = r.dev.m_type
    /\ l.m_adapterIndex = r.dev.m_adapterIndex
    /\ l.validAPIs = r.dev.validAPIs \ {"DESERIALIZED"}
    /\ DriverVersionRaw(l) = DriverVersionRaw(r.dev)
    /\ l.Description = r.dev.Description
    /\ l.VendorId = r.dev.VendorId
    /\ l.DedicatedVideoMemory = r.dev.DedicatedVideoMemory
    /\ l.SharedSystemMemory = r.dev.SharedSystemMemory
    /\ l.PCIDeviceGen = r.dev.PCIDeviceGen
    /\ l.PCIDeviceWidth = r.dev.PCIDeviceWidth
    /\ l.PCICurrentGen = r.dev.PCICurrentGen
    /\ l.PCICurrentWidth = r.dev.PCICurrentWidth
    /\ l.PCIAddress = r.dev.PCIAddress
    /\ l.UMA = r.dev.UMA
    /\ DeviceGenerationAPI(l) = r.gen
    /\ l.NumComputeUnits = r.dev.NumComputeUnits
    /\ (l.pDriverInfo # 0 =>
            r.dev.pDriverInfo # 0 /\ l.pDriverInfo = r.dev.pDriverInfo)

\* JSON::compareXI: "true", or "mismatch" when it calls the error handler
\* and returns false
compareXI(usedAPIs, m, xid) ==
    LET refAPIs == usedAPIs
        desAPIs == xid.m_UsedAPIs \ {"DESERIALIZED"}
        paired(e) == getDeviceByIndex(xid.m_Devices, e.dev.m_adapterIndex)
    IN  IF refAPIs # desAPIs THEN "mismatch"
        ELSE IF Cardinality(m) # Cardinality(xid.m_Devices) THEN "mismatch"
        ELSE IF \A e \in m :
                    /\ paired(e) # 0
                    /\ DeviceEquals(e.dev,
                          CHOOSE x \in xid.m_Devices : x.key = paired(e))
        THEN "true"
        ELSE "mismatch"

\* the members missing from the entries of a document
RECURSIVE MissingCount(_, _)
MissingCount(entries, n) ==
    IF n = 0 THEN 0
    ELSE MissingCount(entries, n - 1)
         + Cardinality(DeviceMembers \ entries[n].has)

\* getXPUInfoJSON on the constructed XPUInfo
jsonSerialize ==
    /\ pc = "done"
    /\ jsonPc = "idle"
    /\ doc' = XPUInfoSerialize(m_UsedAPIs, m_Devices)
    /\ jsonPc' = "written"
    /\ UNCHANGED <<ctorVars, orderVars, telVars, verVars, genVars, strVars,
                   pXID, xiEqual>>

\* a document of another writer: entry i lacks member f
jsonOmit ==
    /\ jsonPc = "written"
    /\ \E i \in 1..Len(doc.Devices), f \in DeviceMembers :
          /\ f \in doc.Devices[i].has
          /\ MissingCount(XPUInfoSerialize(m_UsedAPIs, m_Devices).Devices,
                          Len(doc.Devices)) + MaxMissing
               > MissingCount(doc.Devices, Len(doc.Devices))
          /\ doc' = [doc EXCEPT !.Devices[i].has = @ \ {f}]
    /\ UNCHANGED <<ctorVars, orderVars, telVars, verVars, genVars, strVars,
                   jsonPc, pXID, xiEqual>>

\* a document of another writer: its Version member is absent or carries
\* another version
jsonRetag ==
    /\ jsonPc = "written"
    /\ doc.has = {"Version"}
    /\ doc.Version = XPUINFO_JSON_VERSION
    /\ \/ doc' = [doc EXCEPT !.has = {}, !.Version = ""]
       \/ \E v \in OtherVersions : doc' = [doc EXCEPT !.Version = v]
    /\ UNCHANGED <<ctorVars, orderVars, telVars, verVars, genVars, strVars,
                   jsonPc, pXID, xiEqual>>

\* XPUInfo::deserialize of the parsed document
jsonDeserialize ==
    /\ jsonPc = "written"
    /\ \E nullName \in {"throws", "empty"}, regHit \in BOOLEAN :
          LET xi == XPUInfoDeserialize(doc, nullName, regHit)
          IN  /\ pXID' = [m_UsedAPIs |-> xi.m_UsedAPIs,
                          m_Devices |-> xi.m_Devices]
              /\ jsonPc' = CASE xi.status = "ok" -> "read"
                             [] xi.status = "nullptr" -> "fatal"
                             [] OTHER -> "crashed"
    /\ UNCHANGED <<ctorVars, orderVars, telVars, verVars, genVars, strVars,
                   doc, xiEqual>>

\* JSON::compareXI(pXI, pXID)
jsonCompare ==
    /\ jsonPc = "read"
    /\ xiEqual' = compareXI(m_UsedAPIs, m_Devices, pXID)
    /\ jsonPc' = "compared"
    /\ UNCHANGED <<ctorVars, orderVars, telVars, verVars, genVars, strVars,
                   doc, pXID>>

JSONMasks == {{"DXGI", "DX11_INTEL_PERF_COUNTER", "DXCORE"}}

InitJSON ==
    /\ InitCtor(JSONMasks, FALSE)
    /\ orderIdle
    /\ telIdle
    /\ fnIdle

NextJSON ==
    \/ CtorSteps
    \/ \E r \in DXGIReports(Luids, FALSE) : initDXGI(r)
    \/ \E r \in DXCoreReports(Luids, FALSE) : initDXCore(r)
    \/ jsonSerialize
    \/ jsonOmit
    \/ jsonRetag
    \/ jsonDeserialize
    \/ jsonCompare

SpecJSON == InitJSON /\ [][NextJSON]_vars

\* C12: a registry compared with what is read back from its own snapshot
\* shows no mismatch: compareXI returns true.
C12_RoundTripEqual ==
    (jsonPc = "compared" /\ doc = XPUInfoSerialize(m_UsedAPIs, m_Devices))
        => xiEqual = "true"

\* the unset value of the Device field a member of the document is read into
Unset(f) ==
    CASE f \in {"FreqMaxMHz", "ComputeUnits", "PCIDeviceGen", "PCIDeviceWidth",
                "PCICurrentGen", "PCICurrentWidth",
                "cudaComputeCapability_Major", "IsHighPerformance",
                "IsDetachable"} -> [n |-> NotSet, a |-> <<>>]
      [] f \in {"UMA", "GenerationAPI", "DriverInfo"} -> [n |-> 0, a |-> <<>>]
      [] f = "PCIAddress" -> [n |-> 0, a |-> PCIAddressDefault]
      [] OTHER -> [n |-> 0, a |-> <<>>]

\* the Device field a member of the document is read into
ReadInto(x, f) ==
    CASE f = "FreqMaxMHz" -> [n |-> x.dev.FreqMaxMHz, a |-> <<>>]
      [] f = "ComputeUnits" -> [n |-> x.dev.NumComputeUnits, a |-> <<>>]
      [] f = "PCIDeviceGen" -> [n |-> x.dev.PCIDeviceGen, a |-> <<>>]
      [] f = "PCIDeviceWidth" -> [n |-> x.dev.PCIDeviceWidth, a |-> <<>>]
      [] f = "PCICurrentGen" -> [n |-> x.dev.PCICurrentGen, a |-> <<>>]
      [] f = "PCICurrentWidth" -> [n |-> x.dev.PCICurrentWidth, a |-> <<>>]
      [] f = "cudaComputeCapability_Major" ->
            [n |-> x.dev.cudaComputeCapability, a |-> <<>>]
      [] f = "IsHighPerformance" -> [n |-> x.dev.IsHighPerformance, a |-> <<>>]
      [] f = "IsDetachable" -> [n |-> x.dev.IsDetachable, a |-> <<>>]
      [] f = "UMA" -> [n |-> x.dev.UMA, a |-> <<>>]
      [] f = "GenerationAPI" -> [n |-> x.gen, a |-> <<>>]
      [] f = "DriverInfo" -> [n |-> x.dev.pDriverInfo, a |-> <<>>]
      [] f = "PCIAddress" -> [n |-> 0, a |-> x.dev.PCIAddress]
      [] OTHER -> [n |-> 0, a |-> <<>>]

\* the members a Device can be built without
OptionalMembers ==
    DeviceMembers \ {"Name", "AdapterIndex", "DriverVersionRaw", "Type",
                     "dxgiDesc", "validAPIs"}

\* C13: deserialize of a parsed document completes without a fatal error
\* whichever members its device entries lack, and each field whose member is
\* missing is unset in the Device built.
C13_MissingFieldsTolerated ==
    jsonPc \in {"read", "fatal", "crashed"} =>
        /\ jsonPc = "read"
        /\ \A i \in 1..Len(doc.Devices) :
              \A x \in pXID.m_Devices :
                 x.key = doc.Devices[i].val.dxgiDesc.AdapterLuid =>
                    \A f \in OptionalMembers \ doc.Devices[i].has :
                        ReadInto(x, f) = Unset(f)

\* the registry's own snapshot with the Version member absent (v empty) or v
Retagged(v) ==
    [XPUInfoSerialize(m_UsedAPIs, m_Devices) EXCEPT
        !.has = IF v = "" THEN {} ELSE @, !.Version = v]

\* what deserialize builds from the registry's own snapshot
ReadBackOfOwn ==
    {[m_UsedAPIs |-> m_UsedAPIs,
      m_Devices |->
          DeserializeDevices(XPUInfoSerialize(m_UsedAPIs, m_Devices).Devices,
                             Cardinality(m_Devices), nullName,
                             regHit).m_Devices] :
        nullName \in {"throws", "empty"}, regHit \in BOOLEAN}

IntegratedReportStep(e) ==
    /\ e.dev.m_type = DEVICE_TYPE_GPU
    /\ e.dev.UMA = UMA_UNKNOWN
    /\ iter' = iter + 1
    /\ \/ /\ pc = "DXCore" /\ last'.probe = "DXCore"
          /\ last'.r.luid = e.key
          /\ last'.r.isHardware
          /\ last'.r.isIntegratedValid /\ last'.r.isIntegrated
       \/ /\ pc = "IGCL" /\ last'.probe = "IGCL"
          /\ last'.r.luid = e.key
          /\ last'.r.pci_vendor_id = kVendorId_Intel
          /\ last'.r.integrated

NeedsTimer == deviceAPIs \cap {"IGCL", "LEVELZERO", "DXCORE"} # {}

\* C22: a constructed tracker whose Device calls for a timer holds the
\* timer, CreateThreadpoolTimer's failure being fatal; so start() with a
\* nonzero period always sets the timer
C22_TimerFailureIsFatal ==
    (tracker = "constructed" /\ NeedsTimer)
        => /\ m_timer = "timer"
           /\ (api.last = "start" /\ m_msPeriod # 0) => timerSet

\* C23: no failure to add a performance counter or to enumerate the
\* frequency domains ends the construction of a tracker
C23_MissingSourceNeverFails ==
    required \notin {"PdhAddCounterA", "ctlEnumFrequencyDomains"}

\* C24: when stop() is called on a running tracker after two runs of
\* RecordNow have returned, m_records holds a record; stated here for the
\* runs in which a source stored a value on the latest tick, which leaves
\* out the ticks on which no source answers
C24_TwoTicksGiveARecord ==
    [][(tracker = "constructed" /\ timerSet /\ ~timerSet' /\ ticks >= 2
            /\ yielded = "yes")
        => Len(m_records') >= 1]_vars

(***************************************************************************)
(* The reductions over m_records, called by the application thread.        *)
(***************************************************************************)
\* a getMaxMemUsage that returns the latest record's value
getMaxMemUsage_Last(records) ==
    IF records = <<>> THEN 0
    ELSE records[Len(records)].deviceMemoryUsedBytes

\* std::max
Max(a, b) == IF a < b THEN b ELSE a

\* the loop of getMaxMemUsage over the first n records
RECURSIVE MaxMemUsageUpTo(_, _)
MaxMemUsageUpTo(records, n) ==
    IF n = 0 THEN 0
    ELSE Max(MaxMemUsageUpTo(records, n - 1),
             records[n].deviceMemoryUsedBytes)

\* TelemetryTracker::getMaxMemUsage
getMaxMemUsage(records) == MaxMemUsageUpTo(records, Len(records))

\* TelemetryTracker::getInitialMemUsage
getInitialMemUsage(records) ==
    IF Len(records) # 0 THEN Head(records).deviceMemoryUsedBytes ELSE 0

callGetMaxMemUsage ==
    /\ tracker = "constructed"
    /\ app = "idle"
    /\ usage' = [usage EXCEPT !.peak = getMaxMemUsage(m_records),
                              !.peakAt = Len(m_records)]
    /\ api' = [api EXCEPT !.last = "getMaxMemUsage"]
    /\ UNCHANGED <<tracker, deviceAPIs, m_msPeriod, m_timer, m_pdhQuery,
                   m_freqHandlesL0, timerSet, queued, cb, m_records,
                   m_ResultMask, app, yielded, ticks, required, dtor>>
    /\ UNCHANGED <<ctorVars, orderVars, fnVars>>

callGetInitialMemUsage ==
    /\ tracker = "constructed"
    /\ app = "idle"
    /\ usage' = [usage EXCEPT !.initial = getInitialMemUsage(m_records),
                              !.initialAt = Len(m_records)]
    /\ api' = [api EXCEPT !.last = "getInitialMemUsage"]
    /\ UNCHANGED <<tracker, deviceAPIs, m_msPeriod, m_timer, m_pdhQuery,
                   m_freqHandlesL0, timerSet, queued, cb, m_records,
                   m_ResultMask, app, yielded, ticks, required, dtor>>
    /\ UNCHANGED <<ctorVars, orderVars, fnVars>>

\* a Device with DXCORE whose memory usage goes up and down; the PDH
\* counters answer or not
UsageSamples ==
    [perfInfoOK : {TRUE}, currentUsage : {0, 256, 512},
     igcl : {[ok |-> FALSE, items |-> {}]}, pdhOK : BOOLEAN,
     l0OK : {FALSE}, nvmlClockOK : {FALSE}, nvmlUtilOK : {FALSE},
     qpcOK : {TRUE}]

InitUsage == InitTelemetry

NextUsage ==
    \/ \E msPeriod \in Periods :
          TelemetryTrackerCtor({"DXGI", "DXCORE"}, msPeriod, CtorEnvOK)
    \/ start
    \/ stop
    \/ timerFire
    \/ MyTimerCallback
    \/ \E s \in UsageSamples : RecordNow(s)
    \/ callGetMaxMemUsage
    \/ callGetInitialMemUsage

SpecUsage == InitUsage /\ [][NextUsage]_vars

Digits == <<"0", "1", "2", "3", "4", "5", "6", "7", "8", "9">>

IsDigit(c) == \E i \in 1..Len(Digits) : Digits[i] = c

DigitValue(c) == (CHOOSE i \in 1..Len(Digits) : Digits[i] = c) - 1

\* std::string::npos
npos == 0 - 1

\* std::string::find(c, pos)
find(str, c, p) ==
    LET hits == {i \in p..(Len(str) - 1) : str[i + 1] = c}
    IN IF hits = {} THEN npos
       ELSE CHOOSE i \in hits : \A j \in hits : i <= j

\* the std::istringstream: the read position and the failbit; no operation
\* FromString performs on a string stream sets the badbit
istringstream == [at |-> 0, fail |-> FALSE, bad |-> FALSE]

\* the number of digits of str from position p on
RECURSIVE DigitRun(_, _)
DigitRun(str, p) ==
    IF p < Len(str) /\ IsDigit(str[p + 1]) THEN 1 + DigitRun(str, p + 1)
    ELSE 0

\* the value of the n digits of str from position p on
RECURSIVE DigitsValue(_, _, _)
DigitsValue(str, p, n) ==
    IF n = 0 THEN 0
    ELSE 10 * DigitsValue(str, p, n - 1) + DigitValue(str[p + n])

\* istr >> (std::uint16_t&): nothing is read from a stream that has failed
\* or is at its end; no digit stores 0 and a value above 65535 stores
\* 65535, both setting the failbit
ExtractUI16(str, istr, old) ==
    LET n == DigitRun(str, istr.at)
        v == DigitsValue(str, istr.at, n)
    IN IF istr.fail \/ istr.at >= Len(str)
       THEN [istr |-> [istr EXCEPT !.fail = TRUE], val |-> old]
       ELSE IF n = 0
       THEN [istr |-> [istr EXCEPT !.fail = TRUE], val |-> 0]
       ELSE IF v > 65535
       THEN [istr |-> [istr EXCEPT !.fail = TRUE, !.at = @ + n],
             val |-> 65535]
       ELSE [istr |-> [istr EXCEPT !.at = @ + n], val |-> v]

\* istr >> (char&)
ExtractChar(str, istr, old) ==
    IF istr.fail \/ istr.at >= Len(str)
    THEN [istr |-> [istr EXCEPT !.fail = TRUE], val |-> old]
    ELSE [istr |-> [istr EXCEPT !.at = @ + 1], val |-> str[istr.at + 1]]

\* FromString's first loop from index w on.  sep is read before it is
\* written only when the stream has failed, and then the extraction the
\* comparison guards reads nothing whichever way the comparison goes.
RECURSIVE ReadWords(_, _, _, _, _)
ReadWords(str, istr, sep, verWords, w) ==
    IF w >= Len(verWords) \/ istr.bad THEN [istr |-> istr, verWords |-> verWords]
    ELSE LET c == ExtractChar(str, istr, sep)
             x == ExtractUI16(str, c.istr, verWords[w + 1])
         IN IF c.val = "." /\ ~c.istr.bad
            THEN ReadWords(str, x.istr, c.val,
                           [verWords EXCEPT ![w + 1] = x.val], w + 1)
            ELSE ReadWords(str, c.istr, c.val, verWords, w + 1)

\* verRaw = (verRaw << 16) | verWords[w] in 64 bits, over the first n words
RECURSIVE ShiftIn(_, _)
ShiftIn(verWords, n) ==
    IF n = 0 THEN <<0, 0, 0, 0>>
    ELSE LET verRaw == ShiftIn(verWords, n - 1)
         IN <<verRaw[2], verRaw[3], verRaw[4], verWords[n]>>

\* a GetAsString that prints the four words from the lowest to the highest
GetAsStringWords_Reversed(self) ==
    [mValid |-> self.mValid,
     words |-> <<self.mRawVersion[4], self.mRawVersion[3],
                 self.mRawVersion[2], self.mRawVersion[1]>>]

\* DeviceDriverVersion::FromString past the call of countNumChar
FromString(inVersion, numDots) ==
    LET first == ExtractUI16(inVersion, istringstream, 0)
        verWords == [[i \in 1..(numDots + 1) |-> 0] EXCEPT ![1] = first.val]
        read == ReadWords(inVersion, first.istr, "?", verWords, 1)
    IN IF ~read.istr.bad
       THEN DeviceDriverVersionRaw(ShiftIn(read.verWords, numDots + 1))
       ELSE DeviceDriverVersionNotFound

\* operator<<(unsigned int)
RECURSIVE ToDecimal(_)
ToDecimal(n) ==
    IF n < 10 THEN <<Digits[n + 1]>>
    ELSE ToDecimal(n \div 10) \o <<Digits[(n % 10) + 1]>>

\* the four words GetAsString prints, from the highest to the lowest
GetAsStringWords(self) ==
    [mValid |-> self.mValid, words |-> self.mRawVersion]

\* DeviceDriverVersion::GetAsString
GetAsString(self) ==
    LET out == GetAsStringWords(self)
    IN IF out.mValid
       THEN ToDecimal(out.words[1]) \o <<".">> \o ToDecimal(out.words[2])
            \o <<".">> \o ToDecimal(out.words[3]) \o <<".">>
            \o ToDecimal(out.words[4])
       ELSE <<"InvalidVersion">>

\* the client calls FromString, which calls countNumChar('.', version)
callFromString ==
    /\ strPc = "idle"
    /\ strPc' = "countNumChar"
    /\ pos' = 0
    /\ numMatch' = 0
    /\ UNCHANGED <<text, parsed, asString>>
    /\ UNCHANGED <<ctorVars, orderVars, telVars, verVars, genVars, jsonVars>>

\* one iteration of countNumChar's while (1)
countNumChar ==
    /\ strPc = "countNumChar"
    /\ LET newPos == find(text, ".", pos)
       IN IF newPos = npos
          THEN strPc' = "FromString" /\ UNCHANGED <<pos, numMatch>>
          ELSE IF newPos > pos
          THEN /\ numMatch' = numMatch + 1
               /\ pos' = newPos + 1
               /\ UNCHANGED strPc
          ELSE UNCHANGED <<strPc, pos, numMatch>>
    /\ UNCHANGED <<text, parsed, asString>>
    /\ UNCHANGED <<ctorVars, orderVars, telVars, verVars, genVars, jsonVars>>

\* FromString from the return of countNumChar to its own return
returnFromString ==
    /\ strPc = "FromString"
    /\ parsed' = FromString(text, numMatch)
    /\ strPc' = "returned"
    /\ UNCHANGED <<text, pos, numMatch, asString>>
    /\ UNCHANGED <<ctorVars, orderVars, telVars, verVars, genVars, jsonVars>>

callGetAsString ==
    /\ strPc = "returned"
    /\ asString' = GetAsString(parsed)
    /\ strPc' = "printed"
    /\ UNCHANGED <<text, pos, numMatch, parsed>>
    /\ UNCHANGED <<ctorVars, orderVars, telVars, verVars, genVars, jsonVars>>

\* decimal groups without leading zeros, in 0..65535
Groups ==
    {<<"0">>, <<"7">>, <<"3", "1">>, <<"1", "0", "1">>,
     <<"5", "1", "8", "6">>, <<"6", "5", "5", "3", "5">>}

\* the strings of four dot-separated groups
DottedQuads ==
    {a \o <<".">> \o b \o <<".">> \o c \o <<".">> \o d :
        a \in Groups, b \in Groups, c \in Groups, d \in Groups}

\* other strings: fewer or more groups, an empty group, a group that is
\* not a number or is too large, the empty string
OtherStrings ==
    {<<>>, <<"7">>, <<"1", "0", "1", ".", "5", "1", "8", "6">>,
     <<".">>, <<".", "7">>, <<"7", ".">>, <<"7", ".", ".", "7">>,
     <<"3", "1", ".", "0", ".", ".", "7">>,
     <<"1", ".", "2", ".", "3", ".", "4", ".", "5">>,
     <<"x">>, <<"7", "x", "7">>, <<"6", "5", "5", "3", "6", ".", "7">>}

\* the client holds one of the strings texts and has not called yet
InitClient(texts) ==
    /\ InitCtor({{}}, FALSE)
    /\ orderIdle
    /\ telIdle
    /\ verIdle
    /\ genIdle
    /\ jsonIdle
    /\ text \in texts
    /\ strPc = "idle"
    /\ pos = 0
    /\ numMatch = 0
    /\ parsed = [mRawVersion |-> <<0, 0, 0, 0>>, mValid |-> FALSE]
    /\ asString = <<>>

NextStrings ==
    \/ callFromString
    \/ countNumChar
    \/ returnFromString
    \/ callGetAsString

InitStrings == InitClient(DottedQuads \cup OtherStrings)

SpecStrings == InitStrings /\ [][NextStrings]_vars

\* the dotted quads of two of the groups
SomeDottedQuads ==
    {q \in DottedQuads :
        \A i \in 1..Len(q) : q[i] \in {".", "0", "3", "1"}}

InitStringsFair == InitClient(SomeDottedQuads \cup OtherStrings)

\* the client's thread is scheduled: it makes the call, and countNumChar
\* runs its next iteration
SpecStringsFair ==
    /\ InitStringsFair
    /\ [][NextStrings]_vars
    /\ WF_vars(callFromString)
    /\ WF_vars(countNumChar)

\* C26: for a string of four dot-separated decimal groups without leading
\* zeros, each in 0..65535, FromString returns a valid version whose words
\* are the groups, and GetAsString of it is the string
C26_FromStringRoundTrip ==
    text \in DottedQuads =>
        /\ strPc \in {"returned", "printed"} => parsed.mValid
        /\ strPc = "printed" => asString = text

\* "31.0.101.5186" has been parsed and printed
C26_Witness ==
    /\ text = <<"3", "1", ".", "0", ".", "1", "0", "1", ".",
                "5", "1", "8", "6">>
    /\ strPc = "printed"
    /\ parsed = DeviceDriverVersionRaw(<<31, 0, 101, 5186>>)
    /\ asString = text

\* C30: every call of FromString returns.  What follows countNumChar in
\* FromString is two loops over the verWords.size() words, so FromString
\* returns when its call of countNumChar does
C30_FromStringTerminates ==
    (strPc = "countNumChar") ~> (strPc \in {"FromString", "returned", "printed"})

(***************************************************************************)
(* The used-API mask under the WMI worker.                                 *)
(***************************************************************************)
\* the bits of the probes of the caller's thread that succeeded: a probe
\* that puts its bit in a Device's validAPIs puts it in m_UsedAPIs too
SucceededAPIs(m) ==
    UNION {e.dev.validAPIs \cap {"DXGI", "DXCORE"} : e \in m}

\* C29: after the constructor of XPUInfo has returned m_UsedAPIs holds the
\* bit of every probe that succeeded, however the worker thread's update of
\* m_UsedAPIs in initWMI interleaves with the probes of the caller's thread.
C29_NoProbeBitLost ==
    pc = "done" => SucceededAPIs(m_Devices) \subseteq m_UsedAPIs

(***************************************************************************)
(* The destruction of a TelemetryTracker.                                  *)
(***************************************************************************)
\* the threadpool objects that belong to m_cleanupgroup: the constructor
\* creates the group and the timer but never associates m_CallBackEnviron
\* with the group, so the timer is not a member
CleanupGroupMembers == {}

\* ~TelemetryTrackerWithScopedLog: stop()
dtorScopedStop ==
    /\ tracker = "constructed"
    /\ app = "idle"
    /\ dtor = "none"
    /\ timerSet' = IF m_timer = "timer" THEN FALSE ELSE timerSet
    /\ api' = [last |-> "stop", stopped |-> TRUE, everStopped |-> TRUE]
    /\ dtor' = "scopedLog"
    /\ UNCHANGED <<tracker, deviceAPIs, m_msPeriod, m_timer, m_pdhQuery,
                   m_freqHandlesL0, queued, cb, m_records, m_ResultMask, app,
                   yielded, ticks, required, usage>>
    /\ UNCHANGED <<ctorVars, orderVars, fnVars>>

\* ~TelemetryTrackerWithScopedLog: m_ostr << getLog(), then the base class
\* destructor follows
dtorGetLog ==
    /\ tracker = "constructed"
    /\ dtor = "scopedLog"
    /\ api' = [api EXCEPT !.last = "getLog"]
    /\ dtor' = "base"
    /\ UNCHANGED <<tracker, deviceAPIs, m_msPeriod, m_timer, m_pdhQuery,
                   m_freqHandlesL0, timerSet, queued, cb, m_records,
                   m_ResultMask, app, yielded, ticks, required, usage>>
    /\ UNCHANGED <<ctorVars, orderVars, fnVars>>

\* ~TelemetryTracker: stop(), which clears the timer's due time and returns
dtorStop ==
    /\ tracker = "constructed"
    /\ app = "idle"
    /\ dtor \in {"none", "base"}
    /\ timerSet' = IF m_timer = "timer" THEN FALSE ELSE timerSet
    /\ api' = [last |-> "stop", stopped |-> TRUE, everStopped |-> TRUE]
    /\ dtor' = "stopped"
    /\ UNCHANGED <<tracker, deviceAPIs, m_msPeriod, m_timer, m_pdhQuery,
                   m_freqHandlesL0, queued, cb, m_records, m_ResultMask, app,
                   yielded, ticks, required, usage>>
    /\ UNCHANGED <<ctorVars, orderVars, fnVars>>

\* ~TelemetryTracker: PdhCloseQuery(m_pdhQuery) when m_pdhQuery is set
dtorPdhCloseQuery ==
    /\ tracker = "constructed"
    /\ dtor = "stopped"
    /\ dtor' = "queryClosed"
    /\ UNCHANGED <<tracker, deviceAPIs, m_msPeriod, m_timer, m_pdhQuery,
                   m_freqHandlesL0, timerSet, queued, cb, m_records,
                   m_ResultMask, app, yielded, ticks, required, usage, api>>
    /\ UNCHANGED <<ctorVars, orderVars, fnVars>>

\* ~TelemetryTracker: CloseThreadpoolCleanupGroupMembers(m_cleanupgroup,
\* FALSE, nullptr) returns once no callback of a member of the group is
\* pending or running; CloseThreadpoolCleanupGroup; the destructor returns
dtorCloseCleanupGroup ==
    /\ tracker = "constructed"
    /\ dtor = "queryClosed"
    /\ (NeedsTimer /\ "timer" \in CleanupGroupMembers)
          => (cb = "idle" /\ queued = 0)
    /\ dtor' = "returned"
    /\ UNCHANGED <<tracker, deviceAPIs, m_msPeriod, m_timer, m_pdhQuery,
                   m_freqHandlesL0, timerSet, queued, cb, m_records,
                   m_ResultMask, app, yielded, ticks, required, usage, api>>
    /\ UNCHANGED <<ctorVars, orderVars, fnVars>>

\* RecordNow on a tracker whose destructor has returned: besides running as
\* on a live object, the callback can fault on the released storage
RecordNowAfterFree ==
    /\ tracker = "constructed"
    /\ dtor = "returned"
    /\ cb = "recording"
    /\ tracker' = "terminated"
    /\ cb' = "idle"
    /\ UNCHANGED <<deviceAPIs, m_msPeriod, m_timer, m_pdhQuery,
                   m_freqHandlesL0, timerSet, queued, m_records,
                   m_ResultMask, app, yielded, ticks, required, usage, dtor,
                   api>>
    /\ UNCHANGED <<ctorVars, orderVars, fnVars>>

InitDestroy == InitTelemetry

NextDestroy ==
    \/ \E msPeriod \in Periods, env \in CtorEnvs :
          TelemetryTrackerCtor({"DXGI", "DXCORE"}, msPeriod, env)
    \/ dtor = "none" /\ start
    \/ dtor = "none" /\ stop
    \/ timerFire
    \/ MyTimerCallback
    \/ \E s \in UsageSamples : RecordNow(s)
    \/ RecordNowAfterFree
    \/ dtorScopedStop
    \/ dtorGetLog
    \/ dtorStop
    \/ dtorPdhCloseQuery
    \/ dtorCloseCleanupGroup

SpecDestroy == InitDestroy /\ [][NextDestroy]_vars

\* C28: when the destructor of a TelemetryTracker returns no timer callback
\* is executing and none is pending, and the same holds from the moment the
\* performance-counter query is closed: the destructor has waited for the
\* outstanding callbacks before it releases what RecordNow uses.
C28_DestructorWaitsForCallbacks ==
    dtor \in {"queryClosed", "returned"} => (cb = "idle" /\ queued = 0)
====
